---------------------------- MODULE Spec2Model ----------------------------
(***************************************************************************)
(* A model of the copy-on-write B-tree of src/btree/btree.go, and of the   *)
(* left-leaning red-black tree of package rbtree in its own section.       *)
(*                                                                         *)
(* Nodes live in a heap (a sequence of node records); a node pointer is    *)
(* an index into the heap and 0 is nil.  A Go slice is modelled by the     *)
(* sequence of its elements: no two nodes' slices ever overlap (copy()     *)
(* allocates fresh backing arrays, nodeSplit caps the left half with a     *)
(* three-index slice), so a write through one node's slice is not seen     *)
(* through another's.  Indices passed between operators are Go's 0-based   *)
(* indices; At(s, i) reads s[i].                                           *)
(*                                                                         *)
(* Every operation works on a context c:                                   *)
(*   c.heap  the node heap                                                 *)
(*   c.tr    the BTree record the method is called on                      *)
(*   c.wr    the nodes written through a pointer so far                    *)
(*   c.fw    whether one of them carried another tree's tag when written   *)
(*   c.hint  the caller's PathHint                                         *)
(*   c.out   the items the visitor has been called with                    *)
(*   c.lim   the call at which the visitor returns false (0: never)        *)
(*                                                                         *)
(* An intermediate result that is used more than once is bound as the      *)
(* element of a one-element set,                                           *)
(*     CHOOSE ret \in {Body(x) : x \in {e}} : TRUE,                         *)
(* which is Body(e) with e evaluated once.                                 *)
(***************************************************************************)
EXTENDS Integers, Sequences, FiniteSets

VARIABLES
    heap,      \* the nodes: heap[p] is the node at pointer p
    trees,     \* the BTree records, in order of creation
    gisoid,    \* the package counter behind newIsoID
    dom,       \* the items the callers pass in (fixed by Init)
    stored,    \* per tree: the items put in and not taken out since, by the calls' results
    net,       \* per tree: inserting calls minus removing calls, by the calls' results,
               \* since the tree was made or last cleared
    lost,      \* per tree: whether a Clear took items away
    wrote,     \* the last call's writes: [shared |-> it wrote a node another tree
               \* reaches, foreign |-> it wrote a node that carries another tag,
               \* kept |-> the other trees' Scan sequences are what they were]
    mu,        \* the RWMutex of tree 1: [w |-> the thread that holds it locked or 0,
               \* r |-> the threads that hold it read-locked]; in the tag
               \* specification, one such mutex per tree
    th,        \* per thread: the call in progress, [pc, op, res, exp]; in the tag
               \* specification [pc, u, tr]: the tree called on and the tree being made;
               \* in the red-black tree specification, the panic that ended the program
    seq        \* the tree as the calls leave it when run one by one in the order
               \* they took the lock: [heap, tr]; in the tag specification, the
               \* values newIsoID has returned, in the order of the calls; in the
               \* red-black tree specification, the items in the tree, ascending

vars == <<heap, trees, gisoid, dom, stored, net, lost, wrote, mu, th, seq>>

-----------------------------------------------------------------------------
(* Bounds of the model. *)

NKeys == 10        \* keys of the single-tree specification
IsoKeys == 4       \* keys of the isolation specification
IsoVals == 1       \* keys of the isolation specification that come with a second payload
MaxTrees == 2      \* trees alive in the isolation specification
ValKeys == 4       \* keys of the payload specification
NVals == 2         \* payloads per key in the payload specification
LockKeys == 2      \* keys of the locking specification
NThreads == 2      \* threads of the locking specification
MaxIsoId == 3      \* newIsoID is not called beyond this value in the locking specification
NTagThreads == 2   \* threads of the tag specification
MaxTag == 4        \* newIsoID is not called beyond this value in the tag specification
LLRBKeys == 4      \* keys of the red-black tree specification
LLRBNodes == 6     \* Upsert and Insert add no node beyond this count in that specification
WideDegree == 129  \* Options.Degree of the tree of the wide specification
WideCalls == 4     \* DeleteAt is not called beyond this count in that specification
HeapValues == 2   \* the values of T the callers of the heap hold
HeapKeys == 2     \* the data of a value that less compares
HeapPushes == 4   \* the calls of Heap.Push in a behaviour

(* Program constants. *)

Degree == 2        \* NewBTree: Options{Degree: 2}
HintDepth == 8     \* PathHint: used [8]bool, path [8]uint8
Uint8 == 256       \* the range of a PathHint path entry

-----------------------------------------------------------------------------
(* Items.  An item is a key with a payload; the comparator looks at the    *)
(* key alone.                                                              *)

Item(k, v) == [k |-> k, v |-> v]

empty == Item(0, 0)

less(a, b) == a.k < b.k

At(s, i) == s[i + 1]

\* SetAt that leaves the element as it is
SetAtKeep(s, i, x) == s

SetAt(s, i, x) == [s EXCEPT ![i + 1] = x]

\* InsertAt without the shift: the new element lands behind the last one
InsertAtEnd(s, i, x) == Append(s, x)

\* s with x inserted so that it becomes element i
InsertAt(s, i, x) == SubSeq(s, 1, i) \o <<x>> \o SubSeq(s, i + 1, Len(s))

\* RemoveAt without the shift: the slice loses its last element instead
RemoveAtLast(s, i) == SubSeq(s, 1, Len(s) - 1)

\* s without element i
RemoveAt(s, i) == SubSeq(s, 1, i) \o SubSeq(s, i + 2, Len(s))

degreeToMinMax(deg) ==
    LET d == IF deg <= 0 THEN 32 ELSE IF deg = 1 THEN 2 ELSE deg
        max == d * 2 - 1
    IN  [min |-> max \div 2, max |-> max]

NoHint == [used |-> [i \in 1..HintDepth |-> FALSE], path |-> [i \in 1..HintDepth |-> 0]]

NewBTreeOptions(id, degree, noLocks) ==
    [isoid |-> id, root |-> 0, count |-> 0,
     min |-> degreeToMinMax(degree).min, max |-> degreeToMinMax(degree).max,
     locks |-> ~noLocks]

Ctx(h, tr) ==
    [heap |-> h, tr |-> tr, wr |-> {}, fw |-> FALSE,
     hint |-> NoHint, out |-> <<>>, lim |-> 0]

-----------------------------------------------------------------------------
(* Nodes and the slots that hold node pointers.                            *)

Node(id, leaf) == [isoid |-> id, count |-> 0, items |-> <<>>, children |-> <<>>, leaf |-> leaf]

\* tr.newNode: the new node is appended to the heap
newNode(c, leaf) ==
    [c |-> [c EXCEPT !.heap = Append(@, Node(c.tr.isoid, leaf))], n |-> Len(c.heap) + 1]

\* a write through a node pointer
Put(c, n, node) ==
    CHOOSE ret \in {[cc EXCEPT !.heap[n] = node, !.wr = @ \cup {n},
                               !.fw = @ \/ cc.heap[n].isoid # cc.tr.isoid] : cc \in {c}} : TRUE

\* The places a **node can point at: tr.root, a child slot of a node, a local.
RootSlot == [kind |-> "root", p |-> 0, i |-> 0]

ChildSlot(p, i) == [kind |-> "child", p |-> p, i |-> i]

LocalSlot(n) == [kind |-> "local", p |-> n, i |-> 0]

Deref(c, slot) ==
    IF slot.kind = "root" THEN c.tr.root
    ELSE IF slot.kind = "child" THEN At(c.heap[slot.p].children, slot.i)
    ELSE slot.p

Assign(c, slot, n) ==
    IF slot.kind = "root" THEN [c EXCEPT !.tr.root = n]
    ELSE IF slot.kind = "child"
    THEN Put(c, slot.p, [c.heap[slot.p] EXCEPT !.children = SetAt(@, slot.i, n)])
    ELSE c

RECURSIVE SumCounts(_, _, _)
SumCounts(h, ch, i) ==
    IF i >= Len(ch) THEN 0 ELSE h[At(ch, i)].count + SumCounts(h, ch, i + 1)

updateCount(c, n) ==
    CHOOSE ret \in
        {Put(cc, n, [cc.heap[n] EXCEPT !.count =
                Len(cc.heap[n].items) +
                (IF cc.heap[n].leaf THEN 0 ELSE SumCounts(cc.heap, cc.heap[n].children, 0))]) :
            cc \in {c}} : TRUE

\* copy that duplicates the children with the node
copyDeep(c, n) ==
    LET nd == c.heap[n]
        k == Len(nd.children)
        base == Len(c.heap)
    IN  [c |-> [c EXCEPT !.heap =
                    (@ \o [j \in 1..k |-> [c.heap[nd.children[j]] EXCEPT
                                                !.isoid = c.tr.isoid]])
                       \o <<[nd EXCEPT !.isoid = c.tr.isoid,
                                       !.children = [j \in 1..k |-> base + j]]>>],
         n |-> base + k + 1]

\* tr.copy: a new node with the tree's tag and copies of both slices
copy(c, n) ==
    [c |-> [c EXCEPT !.heap = Append(@, [c.heap[n] EXCEPT !.isoid = c.tr.isoid])],
     n |-> Len(c.heap) + 1]

\* isoLoad that hands out the node of the slot whatever its tag
isoLoadShared(c, slot, mut) == [c |-> c, n |-> Deref(c, slot)]

isoLoad(c, slot, mut) ==
    IF mut /\ c.heap[Deref(c, slot)].isoid # c.tr.isoid
    THEN CHOOSE ret \in {[c |-> Assign(cp.c, slot, cp.n), n |-> cp.n] :
                            cp \in {copy(c, Deref(c, slot))}} : TRUE
    ELSE [c |-> c, n |-> Deref(c, slot)]

-----------------------------------------------------------------------------
(* Search.                                                                 *)

RECURSIVE bsearchLoop(_, _, _, _)
bsearchLoop(items, key, low, high) ==
    IF low < high
    THEN IF ~less(key, At(items, (low + high) \div 2))
         THEN bsearchLoop(items, key, (low + high) \div 2 + 1, high)
         ELSE bsearchLoop(items, key, low, (low + high) \div 2)
    ELSE low

bsearch(items, key) ==
    CHOOSE ret \in
        {IF low > 0 /\ ~less(At(items, low - 1), key)
         THEN [index |-> low - 1, found |-> TRUE]
         ELSE [index |-> low, found |-> FALSE] :
            low \in {bsearchLoop(items, key, 0, Len(items))}} : TRUE

\* hintLoop that does not search: low as the probe of the hinted index left it
hintLoopNone(items, key, low, high) == low

RECURSIVE hintLoop(_, _, _, _)
hintLoop(items, key, low, high) ==
    IF low <= high
    THEN IF ~less(key, At(items, low + ((high + 1) - low) \div 2))
         THEN hintLoop(items, key, low + ((high + 1) - low) \div 2 + 1, high)
         ELSE hintLoop(items, key, low, low + ((high + 1) - low) \div 2 - 1)
    ELSE low

\* hintsearch up to the label path_match: the index and found it arrives with
hintProbe(items, key, hint, depth) ==
    LET len == Len(items)
        Match(i, f) == [index |-> i, found |-> f]
        Between(low, high) ==
            CHOOSE ret \in
                {IF l > 0 /\ ~less(At(items, l - 1), key)
                 THEN Match(l - 1, TRUE)
                 ELSE Match(l, FALSE) : l \in {hintLoop(items, key, low, high)}} : TRUE
        From(index) ==
            IF less(key, At(items, index))
            THEN IF index = 0 \/ less(At(items, index - 1), key)
                 THEN Match(index, FALSE)
                 ELSE Between(0, index - 1)
            ELSE IF less(At(items, index), key)
                 THEN Between(index + 1, len - 1)
                 ELSE Match(index, TRUE)
    IN  IF depth < HintDepth /\ hint.used[depth + 1]
        THEN IF hint.path[depth + 1] >= len /\ less(At(items, len - 1), key)
             THEN Match(len, FALSE)
             ELSE CHOOSE ret \in
                    {From(index) :
                        index \in {IF hint.path[depth + 1] >= len THEN len - 1
                                   ELSE hint.path[depth + 1]}} : TRUE
        ELSE Between(0, len - 1)

\* hintsearch from the label path_match on: the hint it leaves
\* the update at path_match that leaves the deeper entries as they are
hintUpdateKeep(hint, depth, leaf, index, found) ==
    IF depth < HintDepth
    THEN [used |-> [hint.used EXCEPT ![depth + 1] = TRUE],
          path |-> [hint.path EXCEPT ![depth + 1] =
                        (IF leaf /\ found THEN index + 1 ELSE index) % Uint8]]
    ELSE hint

hintUpdate(hint, depth, leaf, index, found) ==
    IF depth < HintDepth
    THEN LET pathIndex == (IF leaf /\ found THEN index + 1 ELSE index) % Uint8
             used1 == [hint.used EXCEPT ![depth + 1] = TRUE]
         IN  IF pathIndex # hint.path[depth + 1]
             THEN [used |-> [i \in 1..HintDepth |-> IF i > depth + 1 THEN FALSE ELSE used1[i]],
                   path |-> [hint.path EXCEPT ![depth + 1] = pathIndex]]
             ELSE [hint EXCEPT !.used = used1]
    ELSE hint

hintsearch(nd, key, hint, depth) ==
    CHOOSE ret \in
        {[index |-> m.index, found |-> m.found,
          hint |-> hintUpdate(hint, depth, nd.leaf, m.index, m.found)] :
            m \in {hintProbe(nd.items, key, hint, depth)}} : TRUE

\* find that tells the place of the key and never a match
findNoMatch(c, n, key, h, depth) ==
    [c |-> c, index |-> bsearchLoop(c.heap[n].items, key, 0, Len(c.heap[n].items)),
     found |-> FALSE]

\* tr.find on node n; h tells whether the caller passed a hint (c.hint)
find(c, n, key, h, depth) ==
    IF ~h
    THEN CHOOSE ret \in
            {[c |-> cc, index |-> r.index, found |-> r.found] :
                cc \in {c}, r \in {bsearch(c.heap[n].items, key)}} : TRUE
    ELSE CHOOSE ret \in
            {[c |-> [cc EXCEPT !.hint = r.hint], index |-> r.index, found |-> r.found] :
                cc \in {c}, r \in {hintsearch(c.heap[n], key, c.hint, depth)}} : TRUE

-----------------------------------------------------------------------------
(* Insertion.                                                              *)

\* nodeSplit that makes the right node a leaf and leaves the children after
\* the median behind
nodeSplitLeaf(c, n) ==
    LET i == c.tr.max \div 2
        nd == c.heap[n]
        Right(nn) ==
            updateCount(Put(nn.c, nn.n, [nn.c.heap[nn.n] EXCEPT
                    !.items = SubSeq(nd.items, i + 2, Len(nd.items))]), nn.n)
        Left(c2) ==
            updateCount(Put(c2, n, [nd EXCEPT
                    !.items = SubSeq(nd.items, 1, i),
                    !.children = IF nd.leaf THEN <<>> ELSE SubSeq(nd.children, 1, i + 1)]), n)
        Cut(nn) ==
            CHOOSE ret \in {[c |-> Left(c2), right |-> nn.n, median |-> At(nd.items, i)] :
                              c2 \in {Right(nn)}} : TRUE
    IN  CHOOSE ret \in {Cut(nn) : nn \in {newNode(c, TRUE)}} : TRUE

nodeSplit(c, n) ==
    LET i == c.tr.max \div 2
        nd == c.heap[n]
        \* the new right node takes the items and children after the median
        Right(nn) ==
            updateCount(Put(nn.c, nn.n, [nn.c.heap[nn.n] EXCEPT
                    !.items = SubSeq(nd.items, i + 2, Len(nd.items)),
                    !.children = IF nd.leaf THEN <<>>
                                 ELSE SubSeq(nd.children, i + 2, Len(nd.children))]), nn.n)
        \* n keeps the items and children before it
        Left(c2) ==
            updateCount(Put(c2, n, [nd EXCEPT
                    !.items = SubSeq(nd.items, 1, i),
                    !.children = IF nd.leaf THEN <<>> ELSE SubSeq(nd.children, 1, i + 1)]), n)
        Cut(nn) ==
            CHOOSE ret \in {[c |-> Left(c2), right |-> nn.n, median |-> At(nd.items, i)] :
                              c2 \in {Right(nn)}} : TRUE
    IN  CHOOSE ret \in {Cut(nn) : nn \in {newNode(c, nd.leaf)}} : TRUE

RECURSIVE nodeSet(_, _, _, _, _)
\* nodeSet that asks for the split of a leaf one item before it is full
nodeSetEarly(c, cn, item, h, depth) ==
    LET Ret(cc, prev, replaced, split) ==
            [c |-> cc, prev |-> prev, replaced |-> replaced, split |-> split]
        \* after the child at i has been split into s
        Retry(s, n, i) ==
            nodeSet(Put(s.c, n, [s.c.heap[n] EXCEPT
                        !.children = InsertAt(@, i + 1, s.right),
                        !.items = InsertAt(@, i, s.median)]),
                    LocalSlot(n), item, h, depth)
        \* after the recursive call on child i of n has answered r
        After(r, n, i) ==
            IF r.split
            THEN IF Len(r.c.heap[n].items) = c.tr.max
                 THEN Ret(r.c, empty, FALSE, TRUE)
                 ELSE CHOOSE ret \in
                        {Retry(s, n, i) :
                            s \in {nodeSplit(r.c, At(r.c.heap[n].children, i))}} : TRUE
            ELSE IF ~r.replaced
            THEN Ret(Put(r.c, n, [r.c.heap[n] EXCEPT !.count = @ + 1]),
                     r.prev, r.replaced, FALSE)
            ELSE Ret(r.c, r.prev, r.replaced, FALSE)
        \* after find on the node n has answered f
        Place(f, n) ==
            IF f.found
            THEN Ret(Put(f.c, n, [f.c.heap[n] EXCEPT !.items = SetAt(@, f.index, item)]),
                     At(f.c.heap[n].items, f.index), TRUE, FALSE)
            ELSE IF f.c.heap[n].leaf
            THEN IF Len(f.c.heap[n].items) >= c.tr.max - 1
                 THEN Ret(f.c, empty, FALSE, TRUE)
                 ELSE Ret(Put(f.c, n, [f.c.heap[n] EXCEPT
                                !.items = InsertAt(@, f.index, item),
                                !.count = @ + 1]),
                          empty, FALSE, FALSE)
            ELSE CHOOSE ret \in
                    {After(r, n, f.index) :
                        r \in {nodeSet(f.c, ChildSlot(n, f.index), item, h, depth + 1)}} : TRUE
        \* with the node of the slot, n, owned by the tree
        Owned(c1, n) ==
            CHOOSE ret \in {Place(f, n) : f \in {find(c1, n, item, h, depth)}} : TRUE
    IN  IF c.heap[Deref(c, cn)].isoid # c.tr.isoid
        THEN CHOOSE ret \in {Owned(Assign(cp.c, cn, cp.n), cp.n) :
                                cp \in {copy(c, Deref(c, cn))}} : TRUE
        ELSE Owned(c, Deref(c, cn))

nodeSet(c, cn, item, h, depth) ==
    LET Ret(cc, prev, replaced, split) ==
            [c |-> cc, prev |-> prev, replaced |-> replaced, split |-> split]
        \* after the child at i has been split into s
        Retry(s, n, i) ==
            nodeSet(Put(s.c, n, [s.c.heap[n] EXCEPT
                        !.children = InsertAt(@, i + 1, s.right),
                        !.items = InsertAt(@, i, s.median)]),
                    LocalSlot(n), item, h, depth)
        \* after the recursive call on child i of n has answered r
        After(r, n, i) ==
            IF r.split
            THEN IF Len(r.c.heap[n].items) = c.tr.max
                 THEN Ret(r.c, empty, FALSE, TRUE)
                 ELSE CHOOSE ret \in
                        {Retry(s, n, i) :
                            s \in {nodeSplit(r.c, At(r.c.heap[n].children, i))}} : TRUE
            ELSE IF ~r.replaced
            THEN Ret(Put(r.c, n, [r.c.heap[n] EXCEPT !.count = @ + 1]),
                     r.prev, r.replaced, FALSE)
            ELSE Ret(r.c, r.prev, r.replaced, FALSE)
        \* after find on the node n has answered f
        Place(f, n) ==
            IF f.found
            THEN Ret(Put(f.c, n, [f.c.heap[n] EXCEPT !.items = SetAt(@, f.index, item)]),
                     At(f.c.heap[n].items, f.index), TRUE, FALSE)
            ELSE IF f.c.heap[n].leaf
            THEN IF Len(f.c.heap[n].items) = c.tr.max
                 THEN Ret(f.c, empty, FALSE, TRUE)
                 ELSE Ret(Put(f.c, n, [f.c.heap[n] EXCEPT
                                !.items = InsertAt(@, f.index, item),
                                !.count = @ + 1]),
                          empty, FALSE, FALSE)
            ELSE CHOOSE ret \in
                    {After(r, n, f.index) :
                        r \in {nodeSet(f.c, ChildSlot(n, f.index), item, h, depth + 1)}} : TRUE
        \* with the node of the slot, n, owned by the tree
        Owned(c1, n) ==
            CHOOSE ret \in {Place(f, n) : f \in {find(c1, n, item, h, depth)}} : TRUE
    IN  IF c.heap[Deref(c, cn)].isoid # c.tr.isoid
        THEN CHOOSE ret \in {Owned(Assign(cp.c, cn, cp.n), cp.n) :
                                cp \in {copy(c, Deref(c, cn))}} : TRUE
        ELSE Owned(c, Deref(c, cn))

RECURSIVE setHint(_, _, _)
setHint(c, item, h) ==
    LET Ret(cc, prev, replaced) == [c |-> cc, prev |-> prev, replaced |-> replaced]
        First(nn) ==
            Ret([Put(nn.c, nn.n, [nn.c.heap[nn.n] EXCEPT !.items = <<item>>, !.count = 1])
                    EXCEPT !.tr.root = nn.n, !.tr.count = 1],
                empty, FALSE)
        \* the new root nn over the old root and the node split off it
        Grow(left, s, nn) ==
            updateCount([Put(nn.c, nn.n, [nn.c.heap[nn.n] EXCEPT
                                !.children = <<left.n, s.right>>,
                                !.items = <<s.median>>])
                            EXCEPT !.tr.root = nn.n],
                        nn.n)
        Split(left, s) ==
            CHOOSE ret \in {setHint(Grow(left, s, nn), item, h) :
                              nn \in {newNode(s.c, FALSE)}} : TRUE
        Root(left) ==
            CHOOSE ret \in {Split(left, s) : s \in {nodeSplit(left.c, left.n)}} : TRUE
        After(r) ==
            IF r.split
            THEN CHOOSE ret \in {Root(left) : left \in {isoLoad(r.c, RootSlot, TRUE)}} : TRUE
            ELSE IF r.replaced
            THEN Ret(r.c, r.prev, TRUE)
            ELSE Ret([r.c EXCEPT !.tr.count = @ + 1], empty, FALSE)
    IN  IF c.tr.root = 0
        THEN CHOOSE ret \in {First(nn) : nn \in {newNode(c, TRUE)}} : TRUE
        ELSE CHOOSE ret \in {After(r) : r \in {nodeSet(c, RootSlot, item, h, 0)}} : TRUE

-----------------------------------------------------------------------------
(* Deletion.                                                               *)

Last(s) == s[Len(s)]

Front(s) == SubSeq(s, 1, Len(s) - 1)

\* nodeRebalance that leaves the two children as they are
nodeRebalanceNone(c, n, i0) == c

\* nodeRebalance that also merges two children that hold max items together
nodeRebalanceFull(c, n, i0) ==
    LET i == IF i0 = Len(c.heap[n].items) THEN i0 - 1 ELSE i0
        \* merge (left, item, right) into left and drop the right child
        Merge(c1, l, left, right, nd) ==
            Put(Put(c1, l, [left EXCEPT
                        !.items = (@ \o <<At(nd.items, i)>>) \o right.items,
                        !.children = IF left.leaf THEN @ ELSE @ \o right.children,
                        !.count = @ + right.count + 1]),
                n, [nd EXCEPT !.items = RemoveAt(@, i),
                              !.children = RemoveAt(@, i + 1)])
        \* move left -> right over one slot
        ToRight(c1, l, r, left, right, nd, moved) ==
            Put(Put(Put(c1, r, [right EXCEPT
                            !.items = <<At(nd.items, i)>> \o @,
                            !.children = IF left.leaf THEN @
                                         ELSE <<Last(left.children)>> \o @,
                            !.count = @ + 1 + moved]),
                    n, [nd EXCEPT !.items = SetAt(@, i, Last(left.items))]),
                l, [left EXCEPT
                        !.items = Front(@),
                        !.children = IF left.leaf THEN @ ELSE Front(@),
                        !.count = @ - 1 - moved])
        \* move left <- right over one slot
        ToLeft(c1, l, r, left, right, nd, moved) ==
            Put(Put(Put(c1, l, [left EXCEPT
                            !.items = Append(@, At(nd.items, i)),
                            !.children = IF left.leaf THEN @
                                         ELSE Append(@, At(right.children, 0)),
                            !.count = @ + 1 + moved]),
                    n, [nd EXCEPT !.items = SetAt(@, i, At(right.items, 0))]),
                r, [right EXCEPT
                        !.items = RemoveAt(@, 0),
                        !.children = IF left.leaf THEN @ ELSE RemoveAt(@, 0),
                        !.count = @ - 1 - moved])
        Balance(c1, l, r, left, right, nd) ==
            IF Len(left.items) + Len(right.items) <= c.tr.max
            THEN Merge(c1, l, left, right, nd)
            ELSE IF Len(left.items) > Len(right.items)
            THEN CHOOSE ret \in
                    {ToRight(c1, l, r, left, right, nd, moved) :
                        moved \in {IF left.leaf THEN 0
                                   ELSE c1.heap[Last(left.children)].count}} : TRUE
            ELSE CHOOSE ret \in
                    {ToLeft(c1, l, r, left, right, nd, moved) :
                        moved \in {IF left.leaf THEN 0
                                   ELSE c1.heap[At(right.children, 0)].count}} : TRUE
        Loaded(l, r) ==
            CHOOSE ret \in
                {Balance(r.c, l.n, r.n, left, right, nd) :
                    left \in {r.c.heap[l.n]}, right \in {r.c.heap[r.n]},
                    nd \in {r.c.heap[n]}} : TRUE
        Right(l) ==
            CHOOSE ret \in {Loaded(l, r) : r \in {isoLoad(l.c, ChildSlot(n, i + 1), TRUE)}} : TRUE
    IN  CHOOSE ret \in {Right(l) : l \in {isoLoad(c, ChildSlot(n, i), TRUE)}} : TRUE

nodeRebalance(c, n, i0) ==
    LET i == IF i0 = Len(c.heap[n].items) THEN i0 - 1 ELSE i0
        \* merge (left, item, right) into left and drop the right child
        Merge(c1, l, left, right, nd) ==
            Put(Put(c1, l, [left EXCEPT
                        !.items = (@ \o <<At(nd.items, i)>>) \o right.items,
                        !.children = IF left.leaf THEN @ ELSE @ \o right.children,
                        !.count = @ + right.count + 1]),
                n, [nd EXCEPT !.items = RemoveAt(@, i),
                              !.children = RemoveAt(@, i + 1)])
        \* move left -> right over one slot
        ToRight(c1, l, r, left, right, nd, moved) ==
            Put(Put(Put(c1, r, [right EXCEPT
                            !.items = <<At(nd.items, i)>> \o @,
                            !.children = IF left.leaf THEN @
                                         ELSE <<Last(left.children)>> \o @,
                            !.count = @ + 1 + moved]),
                    n, [nd EXCEPT !.items = SetAt(@, i, Last(left.items))]),
                l, [left EXCEPT
                        !.items = Front(@),
                        !.children = IF left.leaf THEN @ ELSE Front(@),
                        !.count = @ - 1 - moved])
        \* move left <- right over one slot
        ToLeft(c1, l, r, left, right, nd, moved) ==
            Put(Put(Put(c1, l, [left EXCEPT
                            !.items = Append(@, At(nd.items, i)),
                            !.children = IF left.leaf THEN @
                                         ELSE Append(@, At(right.children, 0)),
                            !.count = @ + 1 + moved]),
                    n, [nd EXCEPT !.items = SetAt(@, i, At(right.items, 0))]),
                r, [right EXCEPT
                        !.items = RemoveAt(@, 0),
                        !.children = IF left.leaf THEN @ ELSE RemoveAt(@, 0),
                        !.count = @ - 1 - moved])
        Balance(c1, l, r, left, right, nd) ==
            IF Len(left.items) + Len(right.items) < c.tr.max
            THEN Merge(c1, l, left, right, nd)
            ELSE IF Len(left.items) > Len(right.items)
            THEN CHOOSE ret \in
                    {ToRight(c1, l, r, left, right, nd, moved) :
                        moved \in {IF left.leaf THEN 0
                                   ELSE c1.heap[Last(left.children)].count}} : TRUE
            ELSE CHOOSE ret \in
                    {ToLeft(c1, l, r, left, right, nd, moved) :
                        moved \in {IF left.leaf THEN 0
                                   ELSE c1.heap[At(right.children, 0)].count}} : TRUE
        Loaded(l, r) ==
            CHOOSE ret \in
                {Balance(r.c, l.n, r.n, left, right, nd) :
                    left \in {r.c.heap[l.n]}, right \in {r.c.heap[r.n]},
                    nd \in {r.c.heap[n]}} : TRUE
        Right(l) ==
            CHOOSE ret \in {Loaded(l, r) : r \in {isoLoad(l.c, ChildSlot(n, i + 1), TRUE)}} : TRUE
    IN  CHOOSE ret \in {Right(l) : l \in {isoLoad(c, ChildSlot(n, i), TRUE)}} : TRUE

RECURSIVE delete(_, _, _, _, _, _)
\* delete that takes n.count down before it knows whether the key was found below
deleteCountsFirst(c, cn, max, key, h, depth) ==
    LET Ret(cc, prev, deleted) == [c |-> cc, prev |-> prev, deleted |-> deleted]
        \* the tail of the function, with n.count taken down in c1
        Settle(c1, n, i, prev) ==
            IF Len(c1.heap[At(c1.heap[n].children, i)].items) < c.tr.min
            THEN Ret(nodeRebalance(c1, n, i), prev, TRUE)
            ELSE Ret(c1, prev, TRUE)
        \* the tail of the function, after the recursive call on child i
        After(cr, deleted, n, i, prev) ==
            IF ~deleted
            THEN Ret(Put(cr, n, [cr.heap[n] EXCEPT !.count = @ - 1]), empty, FALSE)
            ELSE CHOOSE ret \in
                    {Settle(c1, n, i, prev) :
                        c1 \in {Put(cr, n, [cr.heap[n] EXCEPT !.count = @ - 1])}} : TRUE
        Leaf(f, n) ==
            IF f.found
            THEN Ret(Put(f.c, n, [f.c.heap[n] EXCEPT !.items = RemoveAt(@, f.index),
                                                     !.count = @ - 1]),
                     At(f.c.heap[n].items, f.index), TRUE)
            ELSE Ret(f.c, empty, FALSE)
        \* the found item of an internal node is replaced by the maximum below it
        Swap(f, n, r) ==
            CHOOSE ret \in
                {After(c1, TRUE, n, f.index, At(f.c.heap[n].items, f.index)) :
                    c1 \in {Put(r.c, n, [r.c.heap[n] EXCEPT
                                    !.items = SetAt(@, f.index, r.prev)])}} : TRUE
        Inner(f, n) ==
            IF f.found
            THEN IF max
                 THEN CHOOSE ret \in
                        {After(r.c, r.deleted, n, f.index + 1, r.prev) :
                            r \in {delete(f.c, ChildSlot(n, f.index + 1),
                                          TRUE, empty, FALSE, 0)}} : TRUE
                 ELSE CHOOSE ret \in
                        {Swap(f, n, r) :
                            r \in {delete(f.c, ChildSlot(n, f.index),
                                          TRUE, empty, FALSE, 0)}} : TRUE
            ELSE CHOOSE ret \in
                    {After(r.c, r.deleted, n, f.index, r.prev) :
                        r \in {delete(f.c, ChildSlot(n, f.index),
                                      max, key, h, depth + 1)}} : TRUE
        Loaded(c1, n) ==
            CHOOSE ret \in
                {IF f.c.heap[n].leaf THEN Leaf(f, n) ELSE Inner(f, n) :
                    f \in {IF max
                           THEN [c |-> c1, index |-> Len(c1.heap[n].items) - 1, found |-> TRUE]
                           ELSE find(c1, n, key, h, depth)}} : TRUE
    IN  CHOOSE ret \in {Loaded(ld.c, ld.n) : ld \in {isoLoad(c, cn, TRUE)}} : TRUE

delete(c, cn, max, key, h, depth) ==
    LET Ret(cc, prev, deleted) == [c |-> cc, prev |-> prev, deleted |-> deleted]
        \* the tail of the function, with n.count taken down in c1
        Settle(c1, n, i, prev) ==
            IF Len(c1.heap[At(c1.heap[n].children, i)].items) < c.tr.min
            THEN Ret(nodeRebalance(c1, n, i), prev, TRUE)
            ELSE Ret(c1, prev, TRUE)
        \* the tail of the function, after the recursive call on child i
        After(cr, deleted, n, i, prev) ==
            IF ~deleted
            THEN Ret(cr, empty, FALSE)
            ELSE CHOOSE ret \in
                    {Settle(c1, n, i, prev) :
                        c1 \in {Put(cr, n, [cr.heap[n] EXCEPT !.count = @ - 1])}} : TRUE
        Leaf(f, n) ==
            IF f.found
            THEN Ret(Put(f.c, n, [f.c.heap[n] EXCEPT !.items = RemoveAt(@, f.index),
                                                     !.count = @ - 1]),
                     At(f.c.heap[n].items, f.index), TRUE)
            ELSE Ret(f.c, empty, FALSE)
        \* the found item of an internal node is replaced by the maximum below it
        Swap(f, n, r) ==
            CHOOSE ret \in
                {After(c1, TRUE, n, f.index, At(f.c.heap[n].items, f.index)) :
                    c1 \in {Put(r.c, n, [r.c.heap[n] EXCEPT
                                    !.items = SetAt(@, f.index, r.prev)])}} : TRUE
        Inner(f, n) ==
            IF f.found
            THEN IF max
                 THEN CHOOSE ret \in
                        {After(r.c, r.deleted, n, f.index + 1, r.prev) :
                            r \in {delete(f.c, ChildSlot(n, f.index + 1),
                                          TRUE, empty, FALSE, 0)}} : TRUE
                 ELSE CHOOSE ret \in
                        {Swap(f, n, r) :
                            r \in {delete(f.c, ChildSlot(n, f.index),
                                          TRUE, empty, FALSE, 0)}} : TRUE
            ELSE CHOOSE ret \in
                    {After(r.c, r.deleted, n, f.index, r.prev) :
                        r \in {delete(f.c, ChildSlot(n, f.index),
                                      max, key, h, depth + 1)}} : TRUE
        Loaded(c1, n) ==
            CHOOSE ret \in
                {IF f.c.heap[n].leaf THEN Leaf(f, n) ELSE Inner(f, n) :
                    f \in {IF max
                           THEN [c |-> c1, index |-> Len(c1.heap[n].items) - 1, found |-> TRUE]
                           ELSE find(c1, n, key, h, depth)}} : TRUE
    IN  CHOOSE ret \in {Loaded(ld.c, ld.n) : ld \in {isoLoad(c, cn, TRUE)}} : TRUE

\* deleteHint that leaves tr.count alone
deleteHintNoCount(c, key, h) ==
    LET Ret(cc, prev, found) == [c |-> cc, prev |-> prev, found |-> found]
        Shrink(c1) ==
            IF Len(c1.heap[c1.tr.root].items) = 0 /\ ~c1.heap[c1.tr.root].leaf
            THEN [c1 EXCEPT !.tr.root = At(c1.heap[c1.tr.root].children, 0)]
            ELSE c1
        Empty(c2) == IF c2.heap[c2.tr.root].count = 0 THEN [c2 EXCEPT !.tr.root = 0] ELSE c2
        After(r) ==
            IF ~r.deleted THEN Ret(r.c, empty, FALSE)
            ELSE CHOOSE ret \in {Ret(Empty(c2), r.prev, TRUE) : c2 \in {Shrink(r.c)}} : TRUE
    IN  IF c.tr.root = 0
        THEN Ret(c, empty, FALSE)
        ELSE CHOOSE ret \in {After(r) : r \in {delete(c, RootSlot, FALSE, key, h, 0)}} : TRUE

\* deleteHint that keeps the root when the last item has gone
deleteHintKeepRoot(c, key, h) ==
    LET Ret(cc, prev, found) == [c |-> cc, prev |-> prev, found |-> found]
        Shrink(c1) ==
            IF Len(c1.heap[c1.tr.root].items) = 0 /\ ~c1.heap[c1.tr.root].leaf
            THEN [c1 EXCEPT !.tr.root = At(c1.heap[c1.tr.root].children, 0)]
            ELSE c1
        After(r) ==
            IF ~r.deleted THEN Ret(r.c, empty, FALSE)
            ELSE CHOOSE ret \in
                    {Ret(c2, r.prev, TRUE) :
                        c2 \in {[Shrink(r.c) EXCEPT !.tr.count = @ - 1]}} : TRUE
    IN  IF c.tr.root = 0
        THEN Ret(c, empty, FALSE)
        ELSE CHOOSE ret \in {After(r) : r \in {delete(c, RootSlot, FALSE, key, h, 0)}} : TRUE

\* deleteHint that gives up a root that still holds an item
deleteHintDrop(c, key, h) ==
    LET Ret(cc, prev, found) == [c |-> cc, prev |-> prev, found |-> found]
        Shrink(c1) ==
            IF Len(c1.heap[c1.tr.root].items) <= 1 /\ ~c1.heap[c1.tr.root].leaf
            THEN [c1 EXCEPT !.tr.root = At(c1.heap[c1.tr.root].children, 0)]
            ELSE c1
        Empty(c2) == IF c2.tr.count = 0 THEN [c2 EXCEPT !.tr.root = 0] ELSE c2
        After(r) ==
            IF ~r.deleted THEN Ret(r.c, empty, FALSE)
            ELSE CHOOSE ret \in
                    {Ret(Empty(c2), r.prev, TRUE) :
                        c2 \in {[Shrink(r.c) EXCEPT !.tr.count = @ - 1]}} : TRUE
    IN  IF c.tr.root = 0
        THEN Ret(c, empty, FALSE)
        ELSE CHOOSE ret \in {After(r) : r \in {delete(c, RootSlot, FALSE, key, h, 0)}} : TRUE

deleteHint(c, key, h) ==
    LET Ret(cc, prev, found) == [c |-> cc, prev |-> prev, found |-> found]
        Shrink(c1) ==
            IF Len(c1.heap[c1.tr.root].items) = 0 /\ ~c1.heap[c1.tr.root].leaf
            THEN [c1 EXCEPT !.tr.root = At(c1.heap[c1.tr.root].children, 0)]
            ELSE c1
        Empty(c2) == IF c2.tr.count = 0 THEN [c2 EXCEPT !.tr.root = 0] ELSE c2
        After(r) ==
            IF ~r.deleted THEN Ret(r.c, empty, FALSE)
            ELSE CHOOSE ret \in
                    {Ret(Empty(c2), r.prev, TRUE) :
                        c2 \in {[Shrink(r.c) EXCEPT !.tr.count = @ - 1]}} : TRUE
    IN  IF c.tr.root = 0
        THEN Ret(c, empty, FALSE)
        ELSE CHOOSE ret \in {After(r) : r \in {delete(c, RootSlot, FALSE, key, h, 0)}} : TRUE

-----------------------------------------------------------------------------
(* Load, DeleteMin, DeleteMax: a descent that updates the counts as it     *)
(* goes, and the walk that takes the updates back before the fallback.     *)

\* the child a descent along one edge of the tree takes: the first or the last
\* Edge that is the first child on either edge
EdgeFirst(nd, right) == 0

Edge(nd, right) == IF right THEN Len(nd.children) - 1 ELSE 0

\* revertCounts that leaves the counts as the descent set them
revertCountsNone(c, n, d, right) == c

\* "revert the counts": from node n down one edge, add d to every count
RECURSIVE revertCounts(_, _, _, _)
revertCounts(c, n, d, right) ==
    IF c.heap[n].leaf
    THEN Put(c, n, [c.heap[n] EXCEPT !.count = @ + d])
    ELSE revertCounts(Put(c, n, [c.heap[n] EXCEPT !.count = @ + d]),
                      At(c.heap[n].children, Edge(c.heap[n], right)), d, right)

RECURSIVE loadDescend(_, _, _)
\* loadDescend that appends to the rightmost leaf whatever the item
loadDescendAny(c, n, item) ==
    LET Counted(c1, nd) ==
            IF nd.leaf
            THEN IF Len(nd.items) < c.tr.max
                 THEN [c |-> [Put(c1, n, [nd EXCEPT !.items = Append(@, item)])
                                EXCEPT !.tr.count = @ + 1],
                       done |-> TRUE]
                 ELSE [c |-> c1, done |-> FALSE]
            ELSE CHOOSE ret \in
                    {loadDescend(ld.c, ld.n, item) :
                        ld \in {isoLoad(c1, ChildSlot(n, Edge(nd, TRUE)), TRUE)}} : TRUE
    IN  CHOOSE ret \in
            {Counted(c1, c1.heap[n]) :
                c1 \in {Put(c, n, [c.heap[n] EXCEPT !.count = @ + 1])}} : TRUE

loadDescend(c, n, item) ==
    LET Counted(c1, nd) ==
            IF nd.leaf
            THEN IF Len(nd.items) < c.tr.max /\ less(Last(nd.items), item)
                 THEN [c |-> [Put(c1, n, [nd EXCEPT !.items = Append(@, item)])
                                EXCEPT !.tr.count = @ + 1],
                       done |-> TRUE]
                 ELSE [c |-> c1, done |-> FALSE]
            ELSE CHOOSE ret \in
                    {loadDescend(ld.c, ld.n, item) :
                        ld \in {isoLoad(c1, ChildSlot(n, Edge(nd, TRUE)), TRUE)}} : TRUE
    IN  CHOOSE ret \in
            {Counted(c1, c1.heap[n]) :
                c1 \in {Put(c, n, [c.heap[n] EXCEPT !.count = @ + 1])}} : TRUE

Load(c, item) ==
    LET After(r) ==
            IF r.done
            THEN [c |-> r.c, prev |-> empty, replaced |-> FALSE]
            ELSE setHint(revertCounts(r.c, r.c.tr.root, -1, TRUE), item, FALSE)
        Root(ld) ==
            CHOOSE ret \in {After(r) : r \in {loadDescend(ld.c, ld.n, item)}} : TRUE
    IN  IF c.tr.root = 0
        THEN setHint(c, item, FALSE)
        ELSE CHOOSE ret \in {Root(ld) : ld \in {isoLoad(c, RootSlot, TRUE)}} : TRUE

\* edgeItem that takes the last item of the leaf on either edge
edgeItemLast(nd, right) == Last(nd.items)

edgeItem(nd, right) == IF right THEN Last(nd.items) ELSE At(nd.items, 0)

\* the loop of DeleteMin (right = FALSE) and of DeleteMax (right = TRUE)
RECURSIVE edgeDescend(_, _, _)
edgeDescend(c, n, right) ==
    LET Empty(c3) == IF c3.tr.count = 0 THEN [c3 EXCEPT !.tr.root = 0] ELSE c3
        Take(c1, nd) ==
            CHOOSE ret \in
                {[c |-> Empty(c3), item |-> edgeItem(nd, right), done |-> TRUE] :
                    c3 \in {[Put(c1, n, [nd EXCEPT !.items =
                                    IF right THEN Front(@) ELSE RemoveAt(@, 0)])
                                EXCEPT !.tr.count = @ - 1]}} : TRUE
        Counted(c1, nd) ==
            IF nd.leaf
            THEN IF Len(nd.items) = c.tr.min
                 THEN [c |-> c1, item |-> edgeItem(nd, right), done |-> FALSE]
                 ELSE Take(c1, nd)
            ELSE CHOOSE ret \in
                    {edgeDescend(ld.c, ld.n, right) :
                        ld \in {isoLoad(c1, ChildSlot(n, Edge(nd, right)), TRUE)}} : TRUE
    IN  CHOOSE ret \in
            {Counted(c1, c1.heap[n]) :
                c1 \in {Put(c, n, [c.heap[n] EXCEPT !.count = @ - 1])}} : TRUE

deleteEdge(c, right) ==
    LET After(r) ==
            IF r.done
            THEN [c |-> r.c, prev |-> r.item, found |-> TRUE]
            ELSE deleteHint(revertCounts(r.c, r.c.tr.root, 1, right), r.item, FALSE)
        Root(ld) ==
            CHOOSE ret \in {After(r) : r \in {edgeDescend(ld.c, ld.n, right)}} : TRUE
    IN  IF c.tr.root = 0
        THEN [c |-> c, prev |-> empty, found |-> FALSE]
        ELSE CHOOSE ret \in {Root(ld) : ld \in {isoLoad(c, RootSlot, TRUE)}} : TRUE

DeleteMin(c) == deleteEdge(c, FALSE)

DeleteMax(c) == deleteEdge(c, TRUE)

-----------------------------------------------------------------------------
(* Rank access.                                                            *)

\* The inner loop of getAt and DeleteAt over the children of nd, from child i:
\* the child to descend into with the index left, or the separator hit.
RECURSIVE rankStep(_, _, _, _)
\* rankStep that forgets the separator when it steps over a child
rankStepNoSeparator(h, nd, index, i) ==
    IF i < Len(nd.items)
    THEN IF index < h[At(nd.children, i)].count
         THEN [i |-> i, index |-> index, hit |-> FALSE]
         ELSE IF index = h[At(nd.children, i)].count
         THEN [i |-> i, index |-> index, hit |-> TRUE]
         ELSE rankStep(h, nd, index - h[At(nd.children, i)].count, i + 1)
    ELSE [i |-> i, index |-> index, hit |-> FALSE]

rankStep(h, nd, index, i) ==
    LET \* one turn of the loop on s; s.out tells that the loop is left
        Turn(s) ==
            IF s.out THEN s
            ELSE IF s.i < Len(nd.items)
            THEN IF s.index < h[At(nd.children, s.i)].count
                 THEN [s EXCEPT !.out = TRUE]
                 ELSE IF s.index = h[At(nd.children, s.i)].count
                 THEN [s EXCEPT !.hit = TRUE, !.out = TRUE]
                 ELSE [s EXCEPT !.index = @ - (h[At(nd.children, s.i)].count + 1),
                                !.i = @ + 1]
            ELSE [s EXCEPT !.out = TRUE]
        \* the turns lo .. hi - 1 of the loop, one half of them after the other
        RECURSIVE Turns(_, _, _)
        Turns(s, lo, hi) ==
            IF hi - lo <= 1 THEN Turn(s)
            ELSE CHOOSE ret \in
                    {IF s1.out THEN s1 ELSE Turns(s1, (lo + hi) \div 2, hi) :
                        s1 \in {Turns(s, lo, (lo + hi) \div 2)}} : TRUE
    IN  CHOOSE ret \in
            {[i |-> s.i, index |-> s.index, hit |-> s.hit] :
                s \in {Turns([i |-> i, index |-> index, hit |-> FALSE, out |-> FALSE],
                             i, Len(nd.items) + 1)}} : TRUE

RECURSIVE getAtLoop(_, _, _, _)
getAtLoop(c, n, index, mut) ==
    LET nd == c.heap[n]
        Step(s) ==
            IF s.hit THEN [c |-> c, val |-> At(nd.items, s.i), ok |-> TRUE]
            ELSE CHOOSE ret \in
                    {getAtLoop(ld.c, ld.n, s.index, mut) :
                        ld \in {isoLoad(c, ChildSlot(n, s.i), mut)}} : TRUE
    IN  IF nd.leaf THEN [c |-> c, val |-> At(nd.items, index), ok |-> TRUE]
        ELSE CHOOSE ret \in {Step(s) : s \in {rankStep(c.heap, nd, index, 0)}} : TRUE

getAt(c, index, mut) ==
    IF c.tr.root = 0 \/ index < 0 \/ index >= c.tr.count
    THEN [c |-> c, val |-> empty, ok |-> FALSE]
    ELSE CHOOSE ret \in {getAtLoop(ld.c, ld.n, index, mut) :
                            ld \in {isoLoad(c, RootSlot, mut)}} : TRUE

\* the loop labelled outer of DeleteAt
RECURSIVE deleteAtDescend(_, _, _, _)
deleteAtDescend(c, n, index, path) ==
    LET Empty(c3) == IF c3.tr.count = 0 THEN [c3 EXCEPT !.tr.root = 0] ELSE c3
        Take(c1, nd) ==
            CHOOSE ret \in
                {[c |-> Empty(c3), item |-> At(nd.items, index), done |-> TRUE,
                  path |-> path] :
                    c3 \in {[Put(c1, n, [nd EXCEPT !.items = RemoveAt(@, index)])
                                EXCEPT !.tr.count = @ - 1]}} : TRUE
        Step(c1, nd, s) ==
            IF s.hit
            THEN [c |-> c1, item |-> At(nd.items, s.i), done |-> FALSE,
                  path |-> Append(path, s.i % Uint8)]
            ELSE CHOOSE ret \in
                    {deleteAtDescend(ld.c, ld.n, s.index, Append(path, s.i % Uint8)) :
                        ld \in {isoLoad(c1, ChildSlot(n, s.i), TRUE)}} : TRUE
        Counted(c1, nd) ==
            IF nd.leaf
            THEN IF index >= Len(nd.items)
                 THEN \* n.items[index] panics
                      [c |-> c1, item |-> empty, done |-> TRUE, path |-> path,
                       panic |-> "index out of range"]
                 ELSE IF Len(nd.items) = c.tr.min
                 THEN [c |-> c1, item |-> At(nd.items, index), done |-> FALSE,
                       path |-> Append(path, index % Uint8)]
                 ELSE Take(c1, nd)
            ELSE CHOOSE ret \in
                    {Step(c1, nd, s) : s \in {rankStep(c1.heap, nd, index, 0)}} : TRUE
    IN  CHOOSE ret \in
            {Counted(c1, c1.heap[n]) :
                c1 \in {Put(c, n, [c.heap[n] EXCEPT !.count = @ - 1])}} : TRUE

\* deleteAtRevert that leaves the counts as the descent took them down
deleteAtRevertNone(c, n, path, i) == c

\* the loop over path that rebuilds the hint and takes the count updates back
RECURSIVE deleteAtRevert(_, _, _, _)
deleteAtRevert(c, n, path, i) ==
    LET Hinted(c1) ==
            deleteAtRevert(Put(c1, n, [c1.heap[n] EXCEPT !.count = @ + 1]),
                           IF c1.heap[n].leaf THEN n
                           ELSE At(c1.heap[n].children, At(path, i)),
                           path, i + 1)
    IN  IF i >= Len(path) THEN c
        ELSE CHOOSE ret \in
                {Hinted(c1) :
                    c1 \in {IF i < HintDepth
                            THEN [c EXCEPT !.hint.path[i + 1] = At(path, i),
                                           !.hint.used[i + 1] = TRUE]
                            ELSE c}} : TRUE

DeleteAt(c, index) ==
    LET After(r) ==
            IF "panic" \in DOMAIN r
            THEN [c |-> r.c, prev |-> empty, found |-> FALSE, panic |-> r.panic]
            ELSE IF r.done
            THEN [c |-> r.c, prev |-> r.item, found |-> TRUE]
            ELSE deleteHint(deleteAtRevert([r.c EXCEPT !.hint = NoHint],
                                           r.c.tr.root, r.path, 0),
                            r.item, TRUE)
        Root(ld) ==
            CHOOSE ret \in {After(r) : r \in {deleteAtDescend(ld.c, ld.n, index, <<>>)}} : TRUE
    IN  IF c.tr.root = 0 \/ index < 0 \/ index >= c.tr.count
        THEN [c |-> c, prev |-> empty, found |-> FALSE]
        ELSE CHOOSE ret \in {Root(ld) : ld \in {isoLoad(c, RootSlot, TRUE)}} : TRUE

-----------------------------------------------------------------------------
(* Reads.  With mut they copy the nodes they load that another tree may    *)
(* still reach.                                                            *)

RECURSIVE getHintLoop(_, _, _, _, _, _)
\* getHintLoop that answers with the key it was asked for, not the item it found
getHintLoopKey(c, n, key, h, depth, mut) ==
    LET Found(f) ==
            IF f.found THEN [c |-> f.c, val |-> key, ok |-> TRUE]
            ELSE IF f.c.heap[n].leaf THEN [c |-> f.c, val |-> empty, ok |-> FALSE]
            ELSE CHOOSE ret \in
                    {getHintLoop(ld.c, ld.n, key, h, depth + 1, mut) :
                        ld \in {isoLoad(f.c, ChildSlot(n, f.index), mut)}} : TRUE
    IN  CHOOSE ret \in {Found(f) : f \in {find(c, n, key, h, depth)}} : TRUE

getHintLoop(c, n, key, h, depth, mut) ==
    LET Found(f) ==
            IF f.found THEN [c |-> f.c, val |-> At(f.c.heap[n].items, f.index), ok |-> TRUE]
            ELSE IF f.c.heap[n].leaf THEN [c |-> f.c, val |-> empty, ok |-> FALSE]
            ELSE CHOOSE ret \in
                    {getHintLoop(ld.c, ld.n, key, h, depth + 1, mut) :
                        ld \in {isoLoad(f.c, ChildSlot(n, f.index), mut)}} : TRUE
    IN  CHOOSE ret \in {Found(f) : f \in {find(c, n, key, h, depth)}} : TRUE

getHint(c, key, h, mut) ==
    IF c.tr.root = 0
    THEN [c |-> c, val |-> empty, ok |-> FALSE]
    ELSE CHOOSE ret \in {getHintLoop(ld.c, ld.n, key, h, 0, mut) :
                            ld \in {isoLoad(c, RootSlot, mut)}} : TRUE

RECURSIVE edgeLoop(_, _, _, _)
edgeLoop(c, n, right, mut) ==
    IF c.heap[n].leaf THEN [c |-> c, val |-> edgeItem(c.heap[n], right), ok |-> TRUE]
    ELSE CHOOSE ret \in
            {edgeLoop(ld.c, ld.n, right, mut) :
                ld \in {isoLoad(c, ChildSlot(n, Edge(c.heap[n], right)), mut)}} : TRUE

edgeMut(c, right, mut) ==
    IF c.tr.root = 0
    THEN [c |-> c, val |-> empty, ok |-> FALSE]
    ELSE CHOOSE ret \in {edgeLoop(ld.c, ld.n, right, mut) :
                            ld \in {isoLoad(c, RootSlot, mut)}} : TRUE

minMut(c, mut) == edgeMut(c, FALSE, mut)

maxMut(c, mut) == edgeMut(c, TRUE, mut)

RECURSIVE heightLoop(_, _)
heightLoop(h, n) ==
    IF h[n].leaf THEN 1 ELSE 1 + heightLoop(h, At(h[n].children, 0))

Height(c) == IF c.tr.root # 0 THEN heightLoop(c.heap, c.tr.root) ELSE 0

Len_(c) == c.tr.count

-----------------------------------------------------------------------------
(* Traversal.  iter is the caller's visitor: it is handed x and answers    *)
(* whether to go on.                                                       *)

iter(c, x) == [c |-> [c EXCEPT !.out = Append(@, x)],
               cont |-> c.lim = 0 \/ Len(c.out) + 1 < c.lim]

RECURSIVE leafRun(_, _, _, _)
\* leafRun that goes on whatever the visitor answers
leafRunOn(c, items, i, d) ==
    IF i < 0 \/ i >= Len(items) THEN [c |-> c, cont |-> TRUE]
    ELSE leafRun(iter(c, At(items, i)).c, items, i + d, d)

\* the visitor over items[i], items[i+d], ... of a leaf
leafRun(c, items, i, d) ==
    IF i < 0 \/ i >= Len(items) THEN [c |-> c, cont |-> TRUE]
    ELSE CHOOSE ret \in
            {IF ~v.cont THEN v ELSE leafRun(v.c, items, i + d, d) :
                v \in {iter(c, At(items, i))}} : TRUE

RECURSIVE nodeScan(_, _, _)
RECURSIVE scanLoop(_, _, _, _)
\* nodeScan that loads its node as the scan without mut does
nodeScanPlain(c, cn, mut) ==
    CHOOSE ret \in
        {IF ld.c.heap[ld.n].leaf THEN leafRun(ld.c, ld.c.heap[ld.n].items, 0, 1)
         ELSE scanLoop(ld.c, ld.n, 0, mut) : ld \in {isoLoad(c, cn, FALSE)}} : TRUE

nodeScan(c, cn, mut) ==
    CHOOSE ret \in
        {IF ld.c.heap[ld.n].leaf THEN leafRun(ld.c, ld.c.heap[ld.n].items, 0, 1)
         ELSE scanLoop(ld.c, ld.n, 0, mut) : ld \in {isoLoad(c, cn, mut)}} : TRUE

\* the loop of nodeScan (and the tail of nodeAscend) over an internal node, from item i
scanLoop(c, n, i, mut) ==
    LET Visit(r) ==
            CHOOSE ret \in
                {IF ~v.cont THEN v ELSE scanLoop(v.c, n, i + 1, mut) :
                    v \in {iter(r.c, At(r.c.heap[n].items, i))}} : TRUE
    IN  IF i < Len(c.heap[n].items)
        THEN CHOOSE ret \in
                {IF ~r.cont THEN r ELSE Visit(r) :
                    r \in {nodeScan(c, ChildSlot(n, i), mut)}} : TRUE
        ELSE nodeScan(c, ChildSlot(n, Len(c.heap[n].children) - 1), mut)

scan(c, mut) ==
    IF c.tr.root = 0 THEN c ELSE nodeScan(c, RootSlot, mut).c

RECURSIVE nodeReverse(_, _, _)
RECURSIVE reverseLoop(_, _, _, _)
nodeReverse(c, cn, mut) ==
    LET Inner(ld, nd) ==
            CHOOSE ret \in
                {IF ~r.cont THEN r ELSE reverseLoop(r.c, ld.n, Len(nd.items) - 1, mut) :
                    r \in {nodeReverse(ld.c, ChildSlot(ld.n, Len(nd.children) - 1), mut)}} : TRUE
        Loaded(ld, nd) ==
            IF nd.leaf THEN leafRun(ld.c, nd.items, Len(nd.items) - 1, -1)
            ELSE Inner(ld, nd)
    IN  CHOOSE ret \in {Loaded(ld, ld.c.heap[ld.n]) : ld \in {isoLoad(c, cn, mut)}} : TRUE

\* the loop of nodeReverse (and of nodeDescend) over an internal node, from item i down
reverseLoop(c, n, i, mut) ==
    LET Child(v) ==
            CHOOSE ret \in
                {IF ~r.cont THEN r ELSE reverseLoop(r.c, n, i - 1, mut) :
                    r \in {nodeReverse(v.c, ChildSlot(n, i), mut)}} : TRUE
    IN  IF i >= 0
        THEN CHOOSE ret \in
                {IF ~v.cont THEN v ELSE Child(v) :
                    v \in {iter(c, At(c.heap[n].items, i))}} : TRUE
        ELSE [c |-> c, cont |-> TRUE]

reverse(c, mut) ==
    IF c.tr.root = 0 THEN c ELSE nodeReverse(c, RootSlot, mut).c

RECURSIVE ascendLoop(_, _, _, _)
\* ascendLoop that goes from item to item and never into the subtree between
ascendLoopItems(c, n, i, mut) ==
    IF i < Len(c.heap[n].items)
    THEN CHOOSE ret \in
            {IF ~v.cont THEN v ELSE ascendLoop(v.c, n, i + 1, mut) :
                v \in {iter(c, At(c.heap[n].items, i))}} : TRUE
    ELSE [c |-> c, cont |-> TRUE]

\* the loop of nodeAscend from item i: the item, then the subtree right of it
ascendLoop(c, n, i, mut) ==
    LET Child(v) ==
            CHOOSE ret \in
                {IF ~r.cont THEN r ELSE ascendLoop(r.c, n, i + 1, mut) :
                    r \in {nodeScan(v.c, ChildSlot(n, i + 1), mut)}} : TRUE
        Visit(v) ==
            IF ~v.cont THEN v
            ELSE IF c.heap[n].leaf THEN ascendLoop(v.c, n, i + 1, mut)
            ELSE Child(v)
    IN  IF i < Len(c.heap[n].items)
        THEN CHOOSE ret \in {Visit(v) : v \in {iter(c, At(c.heap[n].items, i))}} : TRUE
        ELSE [c |-> c, cont |-> TRUE]

RECURSIVE nodeAscend(_, _, _, _, _, _)
nodeAscend(c, cn, pivot, h, depth, mut) ==
    LET Below(f, n) ==
            CHOOSE ret \in
                {IF ~r.cont THEN r ELSE ascendLoop(r.c, n, f.index, mut) :
                    r \in {nodeAscend(f.c, ChildSlot(n, f.index), pivot, h,
                                      depth + 1, mut)}} : TRUE
        Found(f, n) ==
            IF ~f.found /\ ~f.c.heap[n].leaf
            THEN Below(f, n)
            ELSE ascendLoop(f.c, n, f.index, mut)
        Loaded(ld) ==
            CHOOSE ret \in {Found(f, ld.n) : f \in {find(ld.c, ld.n, pivot, h, depth)}} : TRUE
    IN  CHOOSE ret \in {Loaded(ld) : ld \in {isoLoad(c, cn, mut)}} : TRUE

ascend(c, pivot, mut) ==
    IF c.tr.root = 0 THEN c ELSE nodeAscend(c, RootSlot, pivot, FALSE, 0, mut).c

RECURSIVE descendLoop(_, _, _, _)
\* descendLoop that goes from item to item and never into the subtree between
descendLoopItems(c, n, i, mut) ==
    IF i >= 0
    THEN CHOOSE ret \in
            {IF ~v.cont THEN v ELSE descendLoop(v.c, n, i - 1, mut) :
                v \in {iter(c, At(c.heap[n].items, i))}} : TRUE
    ELSE [c |-> c, cont |-> TRUE]

\* the loop of nodeDescend from item i down: the item, then the subtree left of it
descendLoop(c, n, i, mut) ==
    LET Child(v) ==
            CHOOSE ret \in
                {IF ~r.cont THEN r ELSE descendLoop(r.c, n, i - 1, mut) :
                    r \in {nodeReverse(v.c, ChildSlot(n, i), mut)}} : TRUE
        Visit(v) ==
            IF ~v.cont THEN v
            ELSE IF c.heap[n].leaf THEN descendLoop(v.c, n, i - 1, mut)
            ELSE Child(v)
    IN  IF i >= 0
        THEN CHOOSE ret \in {Visit(v) : v \in {iter(c, At(c.heap[n].items, i))}} : TRUE
        ELSE [c |-> c, cont |-> TRUE]

RECURSIVE nodeDescend(_, _, _, _, _, _)
nodeDescend(c, cn, pivot, h, depth, mut) ==
    LET Below(f, n) ==
            CHOOSE ret \in
                {IF ~r.cont THEN r ELSE descendLoop(r.c, n, f.index - 1, mut) :
                    r \in {nodeDescend(f.c, ChildSlot(n, f.index), pivot, h,
                                       depth + 1, mut)}} : TRUE
        Found(f, n) ==
            IF f.found THEN descendLoop(f.c, n, f.index, mut)
            ELSE IF f.c.heap[n].leaf THEN descendLoop(f.c, n, f.index - 1, mut)
            ELSE Below(f, n)
        Loaded(ld) ==
            CHOOSE ret \in {Found(f, ld.n) : f \in {find(ld.c, ld.n, pivot, h, depth)}} : TRUE
    IN  CHOOSE ret \in {Loaded(ld) : ld \in {isoLoad(c, cn, mut)}} : TRUE

descend(c, pivot, mut) ==
    IF c.tr.root = 0 THEN c ELSE nodeDescend(c, RootSlot, pivot, FALSE, 0, mut).c

RECURSIVE nodeWalk(_, _, _)
RECURSIVE walkLoop(_, _, _, _)
nodeWalk(c, cn, mut) ==
    CHOOSE ret \in
        {IF ld.c.heap[ld.n].leaf THEN iter(ld.c, ld.c.heap[ld.n].items)
         ELSE walkLoop(ld.c, ld.n, 0, mut) : ld \in {isoLoad(c, cn, mut)}} : TRUE

walkLoop(c, n, i, mut) ==
    LET Sep(r) ==
            CHOOSE ret \in
                {IF ~v.cont THEN v ELSE walkLoop(v.c, n, i + 1, mut) :
                    v \in {iter(r.c, SubSeq(r.c.heap[n].items, i + 1, i + 1))}} : TRUE
    IN  IF i < Len(c.heap[n].items)
        THEN CHOOSE ret \in
                {IF ~r.cont THEN r ELSE Sep(r) :
                    r \in {nodeWalk(c, ChildSlot(n, i), mut)}} : TRUE
        ELSE nodeWalk(c, ChildSlot(n, Len(c.heap[n].items)), mut)

walk(c, mut) ==
    IF c.tr.root = 0 THEN c ELSE nodeWalk(c, RootSlot, mut).c

RECURSIVE nodeItems(_, _, _)
RECURSIVE itemsLoop(_, _, _, _)
nodeItems(c, cn, mut) ==
    CHOOSE ret \in
        {IF ld.c.heap[ld.n].leaf THEN [ld.c EXCEPT !.out = @ \o ld.c.heap[ld.n].items]
         ELSE itemsLoop(ld.c, ld.n, 0, mut) : ld \in {isoLoad(c, cn, mut)}} : TRUE

itemsLoop(c, n, i, mut) ==
    IF i < Len(c.heap[n].items)
    THEN CHOOSE ret \in
            {itemsLoop([c1 EXCEPT !.out = Append(@, At(c1.heap[n].items, i))], n, i + 1, mut) :
                c1 \in {nodeItems(c, ChildSlot(n, i), mut)}} : TRUE
    ELSE nodeItems(c, ChildSlot(n, Len(c.heap[n].children) - 1), mut)

items(c, mut) ==
    IF c.tr.root # 0 THEN nodeItems(c, RootSlot, mut) ELSE c

-----------------------------------------------------------------------------
(* Isolation.                                                              *)

\* newIsoID: atomic.AddUint64(&gisoid, 1).  The counter has 64 bits and the model
\* stops far below 2^64, so the addition never wraps.
\* newIsoID that reads the counter and leaves it as it is
newIsoIDRead(g) == g

newIsoID(g) == g + 1

\* IsoCopy that leaves the source its tag and tags the copy only
IsoCopyKeepTag(tr, g) ==
    [tr |-> tr, tr2 |-> [tr EXCEPT !.isoid = newIsoID(newIsoID(g))], g |-> newIsoID(newIsoID(g))]

\* IsoCopy that gives the source and the copy one new tag
IsoCopyOneTag(tr, g) ==
    [tr |-> [tr EXCEPT !.isoid = newIsoID(g)], tr2 |-> [tr EXCEPT !.isoid = newIsoID(g)],
     g |-> newIsoID(g)]

\* IsoCopy that hands the copy the tag the source had
IsoCopyOldTag(tr, g) ==
    [tr |-> [tr EXCEPT !.isoid = newIsoID(g)], tr2 |-> tr, g |-> newIsoID(g)]

\* IsoCopy under counter value g: the source with its new tag, and the copy
IsoCopy(tr, g) ==
    LET id1 == newIsoID(g)
        tr1 == [tr EXCEPT !.isoid = id1]
        id2 == newIsoID(id1)
    IN  [tr |-> tr1, tr2 |-> [tr1 EXCEPT !.isoid = id2], g |-> id2]

\* Clear that drops the root and leaves the count
ClearRoot(c) == [c EXCEPT !.tr.root = 0]

\* Clear that resets the count and leaves the root
ClearCount(c) == [c EXCEPT !.tr.count = 0]

Clear(c) == [c EXCEPT !.tr.root = 0, !.tr.count = 0]

-----------------------------------------------------------------------------
(* The heap between calls.  Go's collector frees the nodes no tree reaches *)
(* and a pointer's value is never observed, so between calls the heap is   *)
(* kept as the reachable nodes, numbered in the order a walk from the      *)
(* trees' roots meets them.                                                *)

Range(s) == {s[i] : i \in 1..Len(s)}

RECURSIVE visitOrder(_, _, _)
visitOrder(h, todo, acc) ==
    IF todo = <<>> THEN acc
    ELSE IF Head(todo) = 0 \/ Head(todo) \in Range(acc)
    THEN visitOrder(h, Tail(todo), acc)
    ELSE visitOrder(h, h[Head(todo)].children \o Tail(todo), Append(acc, Head(todo)))

Roots(trs) == [t \in 1..Len(trs) |-> trs[t].root]

\* the nodes reachable from the pointers in roots
Reach(h, roots) == Range(visitOrder(h, roots, <<>>))

Collect(h, trs) ==
    LET \* the place of node n in the order
        Place(order, n) == CHOOSE i \in 1..Len(order) : order[i] = n
        Renumber(order) ==
            [heap |-> [i \in 1..Len(order) |->
                         [h[order[i]] EXCEPT !.children =
                             [j \in 1..Len(@) |-> Place(order, @[j])]]],
             trees |-> [t \in 1..Len(trs) |->
                         [trs[t] EXCEPT !.root = IF @ = 0 THEN 0 ELSE Place(order, @)]]]
    IN  CHOOSE ret \in {Renumber(order) :
                          order \in {visitOrder(h, Roots(trs), <<>>)}} : TRUE

-----------------------------------------------------------------------------
(* What the callers expect of a tree: the set of items a map with these    *)
(* calls holds.                                                            *)

SameKey(a, b) == ~less(a, b) /\ ~less(b, a)

Without(S, key) == {x \in S : ~SameKey(x, key)}

\* the items of S in ascending order
RECURSIVE Sorted(_)
Sorted(S) ==
    IF S = {} THEN <<>>
    ELSE LET m == CHOOSE x \in S : \A y \in S : ~less(y, x)
         IN  <<m>> \o Sorted(S \ {m})

WithoutAt(S, i) ==
    IF i < 0 \/ i >= Cardinality(S) THEN S ELSE S \ {At(Sorted(S), i)}

Keys(D) == {Item(x.k, 1) : x \in D}

ScanOf(h, tr) == scan(Ctx(h, tr), FALSE).out

-----------------------------------------------------------------------------
(* The calls on a tree with no lock (Options.NoLocks).                     *)

NoWrite == [shared |-> FALSE, foreign |-> FALSE, kept |-> TRUE]

Idle == /\ mu = [w |-> 0, r |-> {}]
        /\ th = <<>>
        /\ seq = <<>>

\* the state after a call on tree t that ended in context c
Commit(t, c, st, d, clr) ==
    \E g \in {Collect(c.heap, [trees EXCEPT ![t] = c.tr])} :
        /\ heap' = g.heap
        /\ trees' = g.trees
        /\ stored' = [stored EXCEPT ![t] = st]
        /\ net' = [net EXCEPT ![t] = @ + d]
        /\ lost' = [lost EXCEPT ![t] = @ \/ clr]
        /\ wrote' = [shared |-> c.wr \cap Reach(heap, [u \in 1..Len(trees) |->
                                    IF u = t THEN 0 ELSE trees[u].root]) # {},
                     foreign |-> c.fw,
                     kept |-> \A u \in 1..Len(trees) :
                                u = t \/ ScanOf(g.heap, g.trees[u]) = ScanOf(heap, trees[u])]
        /\ UNCHANGED <<gisoid, dom, mu, th, seq>>

Upsert(t, item) ==
    \E r \in {setHint(Ctx(heap, trees[t]), item, FALSE)} :
        Commit(t, r.c, Without(stored[t], item) \cup {item},
               IF r.replaced THEN 0 ELSE 1, FALSE)

LoadCall(t, item) ==
    \E r \in {Load(Ctx(heap, trees[t]), item)} :
        Commit(t, r.c, Without(stored[t], item) \cup {item},
               IF r.replaced THEN 0 ELSE 1, FALSE)

Delete(t, key) ==
    \E r \in {deleteHint(Ctx(heap, trees[t]), key, FALSE)} :
        Commit(t, r.c, Without(stored[t], key), IF r.found THEN -1 ELSE 0, FALSE)

DeleteMinCall(t) ==
    \E r \in {DeleteMin(Ctx(heap, trees[t]))} :
        Commit(t, r.c, WithoutAt(stored[t], 0), IF r.found THEN -1 ELSE 0, FALSE)

DeleteMaxCall(t) ==
    \E r \in {DeleteMax(Ctx(heap, trees[t]))} :
        Commit(t, r.c, WithoutAt(stored[t], Cardinality(stored[t]) - 1),
               IF r.found THEN -1 ELSE 0, FALSE)

DeleteAtCall(t, index) ==
    \E r \in {DeleteAt(Ctx(heap, trees[t]), index)} :
        Commit(t, r.c, WithoutAt(stored[t], index), IF r.found THEN -1 ELSE 0, FALSE)

ClearCall(t) ==
    \E c \in {Clear(Ctx(heap, trees[t]))} :
        Commit(t, c, {}, -net[t], trees[t].count > 0)

IsoCopyCall(t) ==
    LET r == IsoCopy(trees[t], gisoid)
    IN  /\ Len(trees) < MaxTrees
        /\ trees' = Append([trees EXCEPT ![t] = r.tr], r.tr2)
        /\ gisoid' = r.g
        /\ stored' = Append(stored, stored[t])
        /\ net' = Append(net, net[t])
        /\ lost' = Append(lost, FALSE)
        /\ wrote' = NoWrite
        /\ UNCHANGED <<heap, dom, mu, th, seq>>

InitTree(D) ==
    /\ heap = <<>>
    /\ gisoid = newIsoID(0)
    /\ trees = <<NewBTreeOptions(gisoid, Degree, TRUE)>>
    /\ dom = D
    /\ stored = <<{}>>
    /\ net = <<0>>
    /\ lost = <<FALSE>>
    /\ wrote = NoWrite
    /\ Idle

Mutate(t) ==
    \/ \E item \in dom : Upsert(t, item)
    \/ \E item \in dom : LoadCall(t, item)
    \/ \E key \in Keys(dom) : Delete(t, key)
    \/ DeleteMinCall(t)
    \/ DeleteMaxCall(t)
    \/ \E index \in -1..Cardinality(Keys(dom)) : DeleteAtCall(t, index)

(* One tree: ten keys with one payload each, or fewer keys with several.   *)
Init ==
    \E D \in {{Item(k, 1) : k \in 1..NKeys},
              {Item(k, v) : k \in 1..ValKeys, v \in 1..NVals}} : InitTree(D)

Next ==
    \/ Mutate(1)
    \/ ClearCall(1)

Spec == Init /\ [][Next]_vars

(* Trees related by IsoCopy, each mutated on its own by the calls that     *)
(* write nodes, and cleared.                                               *)
InitIso == InitTree({Item(k, 1) : k \in 1..IsoKeys} \cup {Item(k, 2) : k \in 1..IsoVals})

NextIso ==
    \E t \in 1..Len(trees) :
        \/ Mutate(t)
        \/ ClearCall(t)
        \/ IsoCopyCall(t)

SpecIso == InitIso /\ [][NextIso]_vars

-----------------------------------------------------------------------------
(* One tree with locks, called from several threads.  A call is three      *)
(* steps: Begin takes the lock the method asks for, Exec runs the method's *)
(* body, End is the deferred unlock.  The body runs in one step: a thread  *)
(* in it holds the lock, and what a thread without the lock can see of it  *)
(* is the tree before or after.                                            *)

Threads == 1..NThreads

\* tr.lock for thread t on the mutex m: whether it goes through, and the mutex after.
\* lock that read-locks whatever it is asked
lockShared(tr, m, t, write) ==
    [ok |-> m.w = 0, m |-> IF tr.locks THEN [m EXCEPT !.r = @ \cup {t}] ELSE m]

lock(tr, m, t, write) ==
    IF tr.locks
    THEN IF write
         THEN [ok |-> m.w = 0 /\ m.r = {}, m |-> [m EXCEPT !.w = t]]
         ELSE [ok |-> m.w = 0, m |-> [m EXCEPT !.r = @ \cup {t}]]
    ELSE [ok |-> TRUE, m |-> m]

unlock(m, t, write) ==
    IF write THEN [m EXCEPT !.w = 0] ELSE [m EXCEPT !.r = @ \ {t}]

\* The public methods: op.name with op.mut for the Mut variant, op.key and
\* op.index its argument.
Op(name, key, index, mut) == [name |-> name, key |-> key, index |-> index, mut |-> mut]

NoOp == Op("", empty, 0, FALSE)

KeyOps == {"Upsert", "Load", "Delete", "Get", "GetHint", "Ascend", "Descend"}

IndexOps == {"DeleteAt", "GetAt"}

PlainOps == {"DeleteMin", "DeleteMax", "Clear", "IsoCopy", "Scan", "ReverseScan",
             "Min", "Max", "Height", "Walk", "Values", "Len"}

\* the methods that come with a Mut variant
MutOps == {"Get", "GetHint", "Scan", "ReverseScan", "Ascend", "Descend",
           "Min", "Max", "GetAt", "Walk", "Values"}

Ops ==
    {Op(n, Item(k, 1), 0, m) : n \in KeyOps, k \in 1..LockKeys, m \in {FALSE}}
    \cup {Op(n, Item(k, 1), 0, TRUE) : n \in KeyOps \cap MutOps, k \in 1..LockKeys}
    \cup {Op(n, empty, i, FALSE) : n \in IndexOps, i \in 0..LockKeys - 1}
    \cup {Op(n, empty, i, TRUE) : n \in IndexOps \cap MutOps, i \in 0..LockKeys - 1}
    \cup {Op(n, empty, 0, FALSE) : n \in PlainOps}
    \cup {Op(n, empty, 0, TRUE) : n \in PlainOps \cap MutOps}

\* whether the method takes the lock at all
locked(op) == op.name # "Len"

\* the mode the method passes to every method the same: its mut flag
writeByMut(op) == op.mut

\* the mode the method takes the lock in: SetHint calls tr.mu.Lock(), the
\* others tr.lock(true), tr.lock(false) or tr.lock(mut)
write(op) ==
    IF op.name \in {"Upsert", "Load", "Delete", "DeleteMin", "DeleteMax", "DeleteAt",
                    "Clear", "IsoCopy"}
    THEN TRUE
    ELSE IF op.name = "Height" THEN FALSE
    ELSE op.mut

NoRes == [val |-> empty, ok |-> FALSE]

\* the body of the method op on the tree of context c, with gisoid at g
Run(c, op, g) ==
    LET Set(r) == [c |-> r.c, val |-> r.prev, ok |-> r.replaced, g |-> g]
        Del(r) == [c |-> r.c, val |-> r.prev, ok |-> r.found, g |-> g]
        Read(r) == [c |-> r.c, val |-> r.val, ok |-> r.ok, g |-> g]
        Visit(r) == [c |-> r, val |-> r.out, ok |-> TRUE, g |-> g]
    IN  CASE op.name = "Upsert" ->
                CHOOSE ret \in {Set(r) : r \in {setHint(c, op.key, FALSE)}} : TRUE
          [] op.name = "Load" ->
                CHOOSE ret \in {Set(r) : r \in {Load(c, op.key)}} : TRUE
          [] op.name = "Delete" ->
                CHOOSE ret \in {Del(r) : r \in {deleteHint(c, op.key, FALSE)}} : TRUE
          [] op.name = "DeleteMin" ->
                CHOOSE ret \in {Del(r) : r \in {DeleteMin(c)}} : TRUE
          [] op.name = "DeleteMax" ->
                CHOOSE ret \in {Del(r) : r \in {DeleteMax(c)}} : TRUE
          [] op.name = "DeleteAt" ->
                CHOOSE ret \in {Del(r) : r \in {DeleteAt(c, op.index)}} : TRUE
          [] op.name = "Clear" ->
                [c |-> Clear(c), val |-> empty, ok |-> TRUE, g |-> g]
          [] op.name = "IsoCopy" ->
                CHOOSE ret \in {[c |-> [c EXCEPT !.tr = r.tr], val |-> empty, ok |-> TRUE,
                                 g |-> r.g] : r \in {IsoCopy(c.tr, g)}} : TRUE
          [] op.name = "Get" ->
                CHOOSE ret \in {Read(r) : r \in {getHint(c, op.key, FALSE, op.mut)}} : TRUE
          [] op.name = "GetHint" ->
                CHOOSE ret \in {Read(r) : r \in {getHint(c, op.key, TRUE, op.mut)}} : TRUE
          [] op.name = "Min" ->
                CHOOSE ret \in {Read(r) : r \in {minMut(c, op.mut)}} : TRUE
          [] op.name = "Max" ->
                CHOOSE ret \in {Read(r) : r \in {maxMut(c, op.mut)}} : TRUE
          [] op.name = "GetAt" ->
                CHOOSE ret \in {Read(r) : r \in {getAt(c, op.index, op.mut)}} : TRUE
          [] op.name = "Scan" ->
                CHOOSE ret \in {Visit(r) : r \in {scan(c, op.mut)}} : TRUE
          [] op.name = "ReverseScan" ->
                CHOOSE ret \in {Visit(r) : r \in {reverse(c, op.mut)}} : TRUE
          [] op.name = "Ascend" ->
                CHOOSE ret \in {Visit(r) : r \in {ascend(c, op.key, op.mut)}} : TRUE
          [] op.name = "Descend" ->
                CHOOSE ret \in {Visit(r) : r \in {descend(c, op.key, op.mut)}} : TRUE
          [] op.name = "Walk" ->
                CHOOSE ret \in {Visit(r) : r \in {walk(c, op.mut)}} : TRUE
          [] op.name = "Values" ->
                CHOOSE ret \in {Visit(r) : r \in {items(c, op.mut)}} : TRUE
          [] op.name = "Height" ->
                [c |-> c, val |-> Height(c), ok |-> TRUE, g |-> g]
          [] op.name = "Len" ->
                [c |-> c, val |-> Len_(c), ok |-> TRUE, g |-> g]

\* the tree of context c with its heap as it is kept between calls
Kept(c) ==
    CHOOSE ret \in {[heap |-> k.heap, tr |-> k.trees[1]] :
                      k \in {Collect(c.heap, <<c.tr>>)}} : TRUE

\* thread t enters the method op and takes its lock
Begin(t, op) ==
    /\ th[t].pc = "idle"
    /\ op.name = "IsoCopy" => newIsoID(newIsoID(gisoid)) <= MaxIsoId
    /\ IF locked(op)
       THEN \E l \in {lock(trees[1], mu, t, write(op))},
               r \in {Run(Ctx(seq.heap, seq.tr), op, gisoid)} :
                /\ l.ok
                /\ mu' = l.m
                /\ seq' = Kept(r.c)
                /\ th' = [th EXCEPT ![t] = [pc |-> "in", op |-> op, res |-> NoRes,
                                            exp |-> [val |-> r.val, ok |-> r.ok]]]
       ELSE /\ th' = [th EXCEPT ![t] = [pc |-> "in", op |-> op, res |-> NoRes,
                                        exp |-> NoRes]]
            /\ UNCHANGED <<mu, seq>>
    /\ UNCHANGED <<heap, trees, gisoid, dom, stored, net, lost, wrote>>

\* thread t runs the body of its method
Exec(t) ==
    /\ th[t].pc = "in"
    /\ \E r \in {Run(Ctx(heap, trees[1]), th[t].op, gisoid)} :
          \E k \in {Kept(r.c)} :
            /\ heap' = k.heap
            /\ trees' = <<k.tr>>
            /\ gisoid' = r.g
            /\ th' = [th EXCEPT ![t].pc = "out", ![t].res = [val |-> r.val, ok |-> r.ok]]
    /\ UNCHANGED <<dom, stored, net, lost, wrote, mu, seq>>

\* thread t returns from its method: the deferred unlock
End(t) ==
    /\ th[t].pc = "out"
    /\ mu' = IF locked(th[t].op) /\ trees[1].locks
             THEN unlock(mu, t, write(th[t].op))
             ELSE mu
    /\ th' = [th EXCEPT ![t] = [pc |-> "idle", op |-> NoOp, res |-> NoRes, exp |-> NoRes]]
    /\ UNCHANGED <<heap, trees, gisoid, dom, stored, net, lost, wrote, seq>>

InitLock ==
    /\ heap = <<>>
    /\ gisoid = newIsoID(0)
    /\ trees = <<NewBTreeOptions(gisoid, Degree, FALSE)>>
    /\ dom = {Item(k, 1) : k \in 1..LockKeys}
    /\ stored = <<{}>>
    /\ net = <<0>>
    /\ lost = <<FALSE>>
    /\ wrote = NoWrite
    /\ mu = [w |-> 0, r |-> {}]
    /\ th = [t \in Threads |-> [pc |-> "idle", op |-> NoOp, res |-> NoRes, exp |-> NoRes]]
    /\ seq = [heap |-> heap, tr |-> trees[1]]

NextLock ==
    \E t \in Threads :
        \/ \E op \in Ops : Begin(t, op)
        \/ Exec(t)
        \/ End(t)

SpecLock == InitLock /\ [][NextLock]_vars

-----------------------------------------------------------------------------
(* The owner tags.  Threads make trees with NewBTreeOptions and IsoCopy,   *)
(* one statement at a time; newIsoID is one atomic step (atomic.AddUint64).*)
(* A tree is in trees once the call that makes it has returned it.  A tree *)
(* made with NoLocks is called by one thread at a time, as its callers     *)
(* must see to.                                                            *)

TagThreads == 1..NTagThreads

Unlocked == [w |-> 0, r |-> {}]

NoTree == NewBTreeOptions(0, Degree, TRUE)

Resting == [pc |-> "idle", u |-> 0, tr |-> NoTree]

\* NewBTreeOptions: tr.isoid = newIsoID() and the fields from opts
NewTag(t, noLocks) ==
    /\ th[t].pc = "idle"
    /\ newIsoID(gisoid) <= MaxTag
    /\ gisoid' = newIsoID(gisoid)
    /\ seq' = Append(seq, gisoid')
    /\ th' = [th EXCEPT ![t] = [pc |-> "new", u |-> 0,
                                tr |-> NewBTreeOptions(gisoid', Degree, noLocks)]]
    /\ UNCHANGED <<heap, trees, dom, stored, net, lost, wrote, mu>>

\* NewBTreeOptions: return tr
NewReturn(t) ==
    /\ th[t].pc = "new"
    /\ trees' = Append(trees, th[t].tr)
    /\ mu' = Append(mu, Unlocked)
    /\ th' = [th EXCEPT ![t] = Resting]
    /\ UNCHANGED <<heap, gisoid, dom, stored, net, lost, wrote, seq>>

\* IsoCopy on tree u: tr.lock(true)
IsoLock(t, u) ==
    /\ th[t].pc = "idle"
    /\ trees[u].locks \/ \A v \in TagThreads : th[v].u # u
    /\ \E l \in {lock(trees[u], mu[u], t, TRUE)} :
          /\ l.ok
          /\ mu' = [mu EXCEPT ![u] = l.m]
    /\ th' = [th EXCEPT ![t] = [pc |-> "locked", u |-> u, tr |-> NoTree]]
    /\ UNCHANGED <<heap, trees, gisoid, dom, stored, net, lost, wrote, seq>>

\* IsoCopy: tr.isoid = newIsoID()
IsoTagSource(t) ==
    /\ th[t].pc = "locked"
    /\ newIsoID(gisoid) <= MaxTag
    /\ gisoid' = newIsoID(gisoid)
    /\ seq' = Append(seq, gisoid')
    /\ trees' = [trees EXCEPT ![th[t].u].isoid = gisoid']
    /\ th' = [th EXCEPT ![t].pc = "tagged"]
    /\ UNCHANGED <<heap, dom, stored, net, lost, wrote, mu>>

\* IsoCopy: tr2 := new(BTree); *tr2 = *tr
IsoAssign(t) ==
    /\ th[t].pc = "tagged"
    /\ th' = [th EXCEPT ![t].pc = "copied", ![t].tr = trees[th[t].u]]
    /\ UNCHANGED <<heap, trees, gisoid, dom, stored, net, lost, wrote, mu, seq>>

\* IsoCopy: tr2.isoid = newIsoID()
IsoTagCopy(t) ==
    /\ th[t].pc = "copied"
    /\ newIsoID(gisoid) <= MaxTag
    /\ gisoid' = newIsoID(gisoid)
    /\ seq' = Append(seq, gisoid')
    /\ th' = [th EXCEPT ![t].pc = "made", ![t].tr.isoid = gisoid']
    /\ UNCHANGED <<heap, trees, dom, stored, net, lost, wrote, mu>>

\* IsoCopy: return tr2, and the deferred unlock; tr2 comes with a mutex of its own
IsoReturn(t) ==
    /\ th[t].pc = "made"
    /\ trees' = Append(trees, th[t].tr)
    /\ mu' = Append(IF trees[th[t].u].locks
                    THEN [mu EXCEPT ![th[t].u] = unlock(@, t, TRUE)]
                    ELSE mu,
                    Unlocked)
    /\ th' = [th EXCEPT ![t] = Resting]
    /\ UNCHANGED <<heap, gisoid, dom, stored, net, lost, wrote, seq>>

InitTag ==
    /\ heap = <<>>
    /\ gisoid = 0
    /\ trees = <<>>
    /\ dom = {}
    /\ stored = <<>>
    /\ net = <<>>
    /\ lost = <<>>
    /\ wrote = NoWrite
    /\ mu = <<>>
    /\ th = [t \in TagThreads |-> Resting]
    /\ seq = <<>>

NextTag ==
    \E t \in TagThreads :
        \/ \E noLocks \in BOOLEAN : NewTag(t, noLocks)
        \/ NewReturn(t)
        \/ \E u \in 1..Len(trees) : IsoLock(t, u)
        \/ IsoTagSource(t)
        \/ IsoAssign(t)
        \/ IsoTagCopy(t)
        \/ IsoReturn(t)

SpecTag == InitTag /\ [][NextTag]_vars

-----------------------------------------------------------------------------
(* One tree of degree WideDegree, as the Load of ascending keys leaves it  *)
(* once the root holds 2 * WideDegree - 2 items: each leaf but the last     *)
(* holds min items and the last one more.  DeleteAt is called at the first  *)
(* and the last index, inside the second leaf and inside the leaf before   *)
(* the last.  net counts the calls; stored is not kept, and the heap keeps *)
(* the node a merge has dropped.  A call that panics leaves the message in *)
(* th, and no call follows it.                                             *)

InitWide ==
    LET tr == NewBTreeOptions(newIsoID(0), WideDegree, TRUE)
        leaves == tr.max
        Leaf(j) ==
            [Node(tr.isoid, TRUE) EXCEPT
                !.items = [x \in 1..(IF j = leaves THEN tr.min + 1 ELSE tr.min) |->
                              Item((j - 1) * (tr.min + 1) + x, 1)],
                !.count = IF j = leaves THEN tr.min + 1 ELSE tr.min]
        root ==
            [Node(tr.isoid, FALSE) EXCEPT
                !.items = [j \in 1..(leaves - 1) |-> Item(j * (tr.min + 1), 1)],
                !.children = [j \in 1..leaves |-> j + 1],
                !.count = leaves * (tr.min + 1)]
    IN  /\ heap = <<root>> \o [j \in 1..leaves |-> Leaf(j)]
        /\ gisoid = newIsoID(0)
        /\ trees = <<[tr EXCEPT !.root = 1, !.count = leaves * (tr.min + 1)]>>
        /\ dom = {}
        /\ stored = <<{}>>
        /\ net = <<0>>
        /\ lost = <<FALSE>>
        /\ wrote = NoWrite
        /\ Idle

NextWide ==
    \E index \in {0, 2 * trees[1].min, trees[1].count - trees[1].min - 3,
                  trees[1].count - 1} :
        /\ net[1] < WideCalls
        /\ th = <<>>
        /\ \E r \in {DeleteAt(Ctx(heap, trees[1]), index)} :
            /\ IF "panic" \in DOMAIN r
               THEN th' = <<r.panic>> /\ UNCHANGED <<heap, trees>>
               ELSE heap' = r.c.heap /\ trees' = <<r.c.tr>> /\ th' = th
            /\ net' = <<net[1] + 1>>
            /\ UNCHANGED <<gisoid, dom, stored, lost, wrote, mu, seq>>

SpecWide == InitWide /\ [][NextWide]_vars

-----------------------------------------------------------------------------
(* The left-leaning red-black tree of package rbtree                       *)
(* (src/queue/queue_test.go).  A node is a record and a nil pointer a      *)
(* record of its own; no node is reached twice, so the writes through     *)
(* node pointers are the rebuilding of the record.  A function answers     *)
(* [panic |-> message] when the code panics, and the functions that call   *)
(* it pass that on.  In this specification trees   *)
(* holds the one LLRB, [count, root]; seq holds the items the calls have   *)
(* put in and not taken out, ascending, an item as often as it is in; lost *)
(* tells whether Insert has put in an item equal to one in the tree; th    *)
(* holds the message of the panic that ended the program, if any.          *)

nil == [nil |-> TRUE]

\* what F makes of x, or x itself when x is a panic on its way up
Bind(x, F(_)) ==
    CHOOSE ret \in {IF "panic" \in DOMAIN y THEN y ELSE F(y) : y \in {x}} : TRUE

isRed(h) == h # nil /\ ~h.Black

rotateLeft(h) ==
    IF h.Right = nil THEN [panic |-> "nil pointer dereference"]
    ELSE IF h.Right.Black THEN [panic |-> "rotating a black link"]
    ELSE [h.Right EXCEPT !.Left = [h EXCEPT !.Right = h.Right.Left, !.Black = FALSE],
                         !.Black = h.Black]

rotateRight(h) ==
    IF h.Left = nil THEN [panic |-> "nil pointer dereference"]
    ELSE IF h.Left.Black THEN [panic |-> "rotating a black link"]
    ELSE [h.Left EXCEPT !.Right = [h EXCEPT !.Left = h.Left.Right, !.Black = FALSE],
                        !.Black = h.Black]

flip(h) ==
    IF h.Left = nil \/ h.Right = nil THEN [panic |-> "nil pointer dereference"]
    ELSE [h EXCEPT !.Black = ~@, !.Left.Black = ~@, !.Right.Black = ~@]

\* moveRedLeft without the flip it begins with
moveRedLeftNoFlip(h) ==
    IF h.Right = nil THEN [panic |-> "nil pointer dereference"]
    ELSE IF isRed(h.Right.Left)
    THEN Bind(rotateRight(h.Right),
              LAMBDA r : Bind(rotateLeft([h EXCEPT !.Right = r]), flip))
    ELSE h

moveRedLeft(h) ==
    Bind(flip(h), LAMBDA f :
        IF isRed(f.Right.Left)
        THEN Bind(rotateRight(f.Right),
                  LAMBDA r : Bind(rotateLeft([f EXCEPT !.Right = r]), flip))
        ELSE f)

moveRedRight(h) ==
    Bind(flip(h), LAMBDA f :
        IF isRed(f.Left.Left) THEN Bind(rotateRight(f), flip) ELSE f)

fixUp(h) ==
    Bind(IF isRed(h.Right) THEN rotateLeft(h) ELSE h, LAMBDA a :
        Bind(IF isRed(a.Left) /\ isRed(a.Left.Left) THEN rotateRight(a) ELSE a, LAMBDA b :
            IF isRed(b.Left) /\ isRed(b.Right) THEN flip(b) ELSE b))

walkUpRot23(h) ==
    Bind(IF isRed(h.Right) /\ ~isRed(h.Left) THEN rotateLeft(h) ELSE h, LAMBDA a :
        Bind(IF isRed(a.Left) /\ isRed(a.Left.Left) THEN rotateRight(a) ELSE a, LAMBDA b :
            IF isRed(b.Left) /\ isRed(b.Right) THEN flip(b) ELSE b))

(* The recursive functions answer [h, item, ok]: the node that takes the   *)
(* place of the one passed in, the item replaced or deleted, and whether   *)
(* there was one.  walkDownRot23 returns its node as it is.                *)
RECURSIVE replaceOrInsert(_, _)
replaceOrInsert(h, item) ==
    IF h = nil
    THEN [h |-> [Item |-> item, Left |-> nil, Right |-> nil, Black |-> FALSE],
          item |-> empty, ok |-> FALSE]
    ELSE IF less(item, h.Item)
    THEN Bind(replaceOrInsert(h.Left, item), LAMBDA r :
            Bind(walkUpRot23([h EXCEPT !.Left = r.h]), LAMBDA n : [r EXCEPT !.h = n]))
    ELSE IF less(h.Item, item)
    THEN Bind(replaceOrInsert(h.Right, item), LAMBDA r :
            Bind(walkUpRot23([h EXCEPT !.Right = r.h]), LAMBDA n : [r EXCEPT !.h = n]))
    ELSE Bind(walkUpRot23([h EXCEPT !.Item = item]),
              LAMBDA n : [h |-> n, item |-> h.Item, ok |-> TRUE])

RECURSIVE insertNoReplace(_, _)
insertNoReplace(h, item) ==
    IF h = nil THEN [Item |-> item, Left |-> nil, Right |-> nil, Black |-> FALSE]
    ELSE IF less(item, h.Item)
    THEN Bind(insertNoReplace(h.Left, item), LAMBDA l : walkUpRot23([h EXCEPT !.Left = l]))
    ELSE Bind(insertNoReplace(h.Right, item), LAMBDA r : walkUpRot23([h EXCEPT !.Right = r]))

RECURSIVE deleteMin(_)
deleteMin(h) ==
    IF h = nil THEN [h |-> nil, item |-> empty, ok |-> FALSE]
    ELSE IF h.Left = nil THEN [h |-> nil, item |-> h.Item, ok |-> TRUE]
    ELSE Bind(IF ~isRed(h.Left) /\ ~isRed(h.Left.Left) THEN moveRedLeft(h) ELSE h,
              LAMBDA a : Bind(deleteMin(a.Left), LAMBDA r :
                  Bind(fixUp([a EXCEPT !.Left = r.h]), LAMBDA n : [r EXCEPT !.h = n])))

RECURSIVE deleteMax(_)
deleteMax(h) ==
    IF h = nil THEN [h |-> nil, item |-> empty, ok |-> FALSE]
    ELSE Bind(IF isRed(h.Left) THEN rotateRight(h) ELSE h, LAMBDA a :
            IF a.Right = nil THEN [h |-> nil, item |-> a.Item, ok |-> TRUE]
            ELSE Bind(IF ~isRed(a.Right) /\ ~isRed(a.Right.Left) THEN moveRedRight(a) ELSE a,
                      LAMBDA b : Bind(deleteMax(b.Right), LAMBDA r :
                          Bind(fixUp([b EXCEPT !.Right = r.h]),
                               LAMBDA n : [r EXCEPT !.h = n]))))

RECURSIVE LLRBdelete(_, _)
LLRBdelete(h, item) ==
    LET \* at node b, which item is not below
        Here(b) ==
            IF ~less(b.Item, item)
            THEN \* the minimum of the right subtree takes the place of b.Item
                 Bind(deleteMin(b.Right), LAMBDA d :
                    Bind(fixUp([b EXCEPT !.Right = d.h, !.Item = d.item]),
                         LAMBDA n : [h |-> n, item |-> b.Item, ok |-> d.ok]))
            ELSE Bind(LLRBdelete(b.Right, item), LAMBDA r :
                    Bind(fixUp([b EXCEPT !.Right = r.h]), LAMBDA n : [r EXCEPT !.h = n]))
    IN  IF h = nil THEN [h |-> nil, item |-> empty, ok |-> FALSE]
        ELSE IF less(item, h.Item)
        THEN IF h.Left = nil THEN [h |-> h, item |-> empty, ok |-> FALSE]
             ELSE Bind(IF ~isRed(h.Left) /\ ~isRed(h.Left.Left) THEN moveRedLeft(h) ELSE h,
                       LAMBDA a : Bind(LLRBdelete(a.Left, item), LAMBDA r :
                           Bind(fixUp([a EXCEPT !.Left = r.h]),
                                LAMBDA n : [r EXCEPT !.h = n])))
        ELSE Bind(IF isRed(h.Left) THEN rotateRight(h) ELSE h, LAMBDA a :
                IF ~less(a.Item, item) /\ a.Right = nil
                THEN [h |-> nil, item |-> a.Item, ok |-> TRUE]
                ELSE Bind(IF a.Right # nil /\ ~isRed(a.Right) /\ ~isRed(a.Right.Left)
                          THEN moveRedRight(a) ELSE a,
                          Here))

\* the iterator answers false at its call number lim, and true when lim = 0
RECURSIVE ascendRange(_, _, _, _, _)
\* ascendRange that leaves the left subtree out when the node is not below sup
ascendRangeRight(h, inf, sup, out, lim) ==
    LET Visit(l) ==
            IF ~l.go THEN l
            ELSE IF Len(l.out) + 1 = lim
            THEN [out |-> Append(l.out, h.Item), go |-> FALSE]
            ELSE ascendRange(h.Right, inf, sup, Append(l.out, h.Item), lim)
    IN  IF h = nil THEN [out |-> out, go |-> TRUE]
        ELSE IF ~less(h.Item, sup) THEN [out |-> out, go |-> TRUE]
        ELSE IF less(h.Item, inf) THEN ascendRange(h.Right, inf, sup, out, lim)
        ELSE Visit(ascendRange(h.Left, inf, sup, out, lim))

ascendRange(h, inf, sup, out, lim) ==
    LET Visit(l) ==
            IF ~l.go THEN l
            ELSE IF Len(l.out) + 1 = lim
            THEN [out |-> Append(l.out, h.Item), go |-> FALSE]
            ELSE ascendRange(h.Right, inf, sup, Append(l.out, h.Item), lim)
    IN  IF h = nil THEN [out |-> out, go |-> TRUE]
        ELSE IF ~less(h.Item, sup) THEN ascendRange(h.Left, inf, sup, out, lim)
        ELSE IF less(h.Item, inf) THEN ascendRange(h.Right, inf, sup, out, lim)
        ELSE Visit(ascendRange(h.Left, inf, sup, out, lim))

\* the state after a call that answered r and changed the count by d
Returns(r, d, s, twice) ==
    /\ IF "panic" \in DOMAIN r
       THEN th' = <<r.panic>> /\ UNCHANGED <<trees, seq, lost>>
       ELSE /\ trees' = <<[count |-> trees[1].count + d,
                           root |-> IF r.h = nil THEN nil ELSE [r.h EXCEPT !.Black = TRUE]]>>
            /\ seq' = s
            /\ lost' = <<lost[1] \/ twice>>
            /\ UNCHANGED th
    /\ UNCHANGED <<heap, gisoid, dom, stored, net, wrote, mu>>

LLRBUpsert(item) ==
    /\ th = <<>>
    /\ trees[1].count < LLRBNodes \/ \E i \in 1..Len(seq) : SameKey(seq[i], item)
    /\ \E r \in {replaceOrInsert(trees[1].root, item)} :
          Returns(r, IF "panic" \notin DOMAIN r /\ r.ok THEN 0 ELSE 1,
                  IF \E i \in 1..Len(seq) : SameKey(seq[i], item) THEN seq
                  ELSE InsertAt(seq, Cardinality({i \in 1..Len(seq) : less(seq[i], item)}),
                                item),
                  FALSE)

LLRBInsert(item) ==
    /\ th = <<>>
    /\ trees[1].count < LLRBNodes
    /\ \E r \in {Bind(insertNoReplace(trees[1].root, item), LAMBDA n : [h |-> n])} :
          Returns(r, 1,
                  InsertAt(seq, Cardinality({i \in 1..Len(seq) : less(seq[i], item)}), item),
                  \E i \in 1..Len(seq) : SameKey(seq[i], item))

LLRBDelete(key) ==
    /\ th = <<>>
    /\ \E r \in {LLRBdelete(trees[1].root, key)} :
          Returns(r, IF "panic" \notin DOMAIN r /\ r.ok THEN -1 ELSE 0,
                  IF \E i \in 1..Len(seq) : SameKey(seq[i], key)
                  THEN RemoveAt(seq, Cardinality({i \in 1..Len(seq) : less(seq[i], key)}))
                  ELSE seq,
                  FALSE)

LLRBDeleteMin ==
    /\ th = <<>>
    /\ \E r \in {deleteMin(trees[1].root)} :
          Returns(r, IF "panic" \notin DOMAIN r /\ r.ok THEN -1 ELSE 0, IF seq = <<>> THEN seq ELSE Tail(seq), FALSE)

LLRBDeleteMax ==
    /\ th = <<>>
    /\ \E r \in {deleteMax(trees[1].root)} :
          Returns(r, IF "panic" \notin DOMAIN r /\ r.ok THEN -1 ELSE 0, IF seq = <<>> THEN seq ELSE Front(seq), FALSE)

InitLLRB ==
    /\ heap = <<>>
    /\ gisoid = 0
    /\ trees = <<[count |-> 0, root |-> nil]>>
    /\ dom = {Item(k, 1) : k \in 1..LLRBKeys}
    /\ stored = <<{}>>
    /\ net = <<0>>
    /\ lost = <<FALSE>>
    /\ wrote = NoWrite
    /\ Idle

NextLLRB ==
    \/ \E item \in dom : LLRBUpsert(item)
    \/ \E item \in dom : LLRBInsert(item)
    \/ \E key \in dom : LLRBDelete(key)
    \/ LLRBDeleteMin
    \/ LLRBDeleteMax

SpecLLRB == InitLLRB /\ [][NextLLRB]_vars

-----------------------------------------------------------------------------
(* The value-keyed Heap (SpecHeap).                                        *)
(* heap holds the heapNode objects in order of allocation (a pointer is    *)
(* the position), seq is container.nodes, stored[1] is nodeLookUp, a       *)
(* function from values to pointers, and net[v] is the data of value v     *)
(* that less compares. A context c = [nodes, obj, data] carries the first, *)
(* the second and the last through the container's methods.                *)

\* heapContainer.Swap, with positions counted from 0
hcSwap(c, i, j) ==
    LET nodes == [c.nodes EXCEPT ![i + 1] = c.nodes[j + 1], ![j + 1] = c.nodes[i + 1]]
    IN  [c EXCEPT !.nodes = nodes,
                  !.obj = [[c.obj EXCEPT ![nodes[i + 1]].index = i]
                              EXCEPT ![nodes[j + 1]].index = j]]

\* up of container/heap: the parent is (j - 1) / 2, rounded towards zero
RECURSIVE up(_, _)
up(c, j) ==
    LET i == IF j < 1 THEN 0 - ((1 - j) \div 2) ELSE (j - 1) \div 2
        Less(a, b) == c.data[c.obj[c.nodes[a + 1]].value] < c.data[c.obj[c.nodes[b + 1]].value]
    IN  IF i = j THEN c
        ELSE IF ~Less(j, i) THEN c
        ELSE up(hcSwap(c, i, j), i)

\* down of container/heap from position i in the first n nodes; the position
\* reached is returned with the context
RECURSIVE down(_, _, _)
down(c, i, n) ==
    LET j1 == 2 * i + 1
        Less(a, b) == c.data[c.obj[c.nodes[a + 1]].value] < c.data[c.obj[c.nodes[b + 1]].value]
    IN  IF j1 >= n \/ j1 < 0 THEN [c |-> c, i |-> i]
        ELSE LET j == IF j1 + 1 < n /\ Less(j1 + 1, j1) THEN j1 + 1 ELSE j1
             IN  IF ~Less(j, i) THEN [c |-> c, i |-> i]
                 ELSE down(hcSwap(c, i, j), j, n)

\* Heap.Push: a new node, entered in nodeLookUp under its value, appended
\* with its index and moved up
HeapPush(value) ==
    /\ th = <<>>
    /\ Len(heap) < HeapPushes
    /\ LET node == Len(heap) + 1
           n == Len(seq)
       IN  \E c \in {up([nodes |-> Append(seq, node),
                         obj |-> Append(heap, [value |-> value, index |-> n]),
                         data |-> net], n)} :
               /\ stored' = <<[v \in DOMAIN stored[1] \cup {value} |->
                                  IF v = value THEN node ELSE stored[1][v]]>>
               /\ heap' = c.obj
               /\ seq' = c.nodes
    /\ UNCHANGED <<trees, gisoid, dom, net, lost, wrote, mu, th>>

\* Heap.Pop on a heap that is not empty: the first node is swapped with the
\* last, the rest is put in order, the last node leaves with index -1, and
\* the entry of its value is deleted from nodeLookUp
HeapPop ==
    /\ th = <<>>
    /\ Len(seq) > 0
    /\ LET n == Len(seq) - 1
       IN  \E r \in {down(hcSwap([nodes |-> seq, obj |-> heap, data |-> net], 0, n), 0, n)} :
               LET item == r.c.nodes[n + 1]
                   val == r.c.obj[item].value
               IN  /\ heap' = [r.c.obj EXCEPT ![item].index = -1]
                   /\ seq' = SubSeq(r.c.nodes, 1, n)
                   /\ stored' = <<[v \in DOMAIN stored[1] \ {val} |-> stored[1][v]]>>
    /\ UNCHANGED <<trees, gisoid, dom, net, lost, wrote, mu, th>>

\* the data of a value in the heap is changed to key and Heap.Fix is called
\* with the value: a value with no entry in nodeLookUp gives a nil pointer,
\* whose index cannot be read
HeapFix(value, key) ==
    /\ th = <<>>
    /\ \E i \in 1..Len(seq) : heap[seq[i]].value = value
    /\ net' = [net EXCEPT ![value] = key]
    /\ IF value \notin DOMAIN stored[1]
       THEN /\ th' = <<"nil pointer dereference">>
            /\ UNCHANGED <<heap, seq>>
       ELSE LET index == heap[stored[1][value]].index
            IN  \E r \in {down([nodes |-> seq, obj |-> heap, data |-> net'], index, Len(seq))} :
                    \E c \in {IF r.i > index THEN r.c ELSE up(r.c, index)} :
                        /\ heap' = c.obj
                        /\ seq' = c.nodes
                        /\ th' = th
    /\ UNCHANGED <<trees, gisoid, dom, stored, lost, wrote, mu>>

\* New, with the data of every value the callers hold
InitHeap ==
    /\ heap = <<>>
    /\ seq = <<>>
    /\ stored = <<<<>>>>
    /\ net \in [1..HeapValues -> 1..HeapKeys]
    /\ th = <<>>
    /\ trees = <<>>
    /\ gisoid = 0
    /\ dom = {}
    /\ lost = <<>>
    /\ wrote = NoWrite
    /\ mu = [w |-> 0, r |-> {}]

NextHeap ==
    \/ \E value \in 1..HeapValues : HeapPush(value)
    \/ HeapPop
    \/ \E value \in 1..HeapValues : \E key \in 1..HeapKeys : HeapFix(value, key)

SpecHeap == InitHeap /\ [][NextHeap]_vars

-----------------------------------------------------------------------------
(* Properties of one tree (Spec).                                          *)

Tree(t) == Ctx(heap, trees[t])

Ascending(out) == \A i \in 1..Len(out) - 1 : less(out[i], out[i + 1])

\* C1: after any sequence of Upsert, Load, Delete, DeleteMin, DeleteMax and
\* DeleteAt calls, Scan visits every stored item exactly once, in strictly
\* ascending order of the comparator.
C1_ScanAscending ==
    \A t \in 1..Len(trees) :
        LET out == ScanOf(heap, trees[t])
        IN  /\ Ascending(out)
            /\ Range(out) = stored[t]
            /\ Len(out) = Cardinality(stored[t])

\* a tree of height 3 that calls have taken items out of again
C1_Witness ==
    /\ Height(Tree(1)) = 3
    /\ Cardinality(stored[1]) = 7
    /\ Len(ScanOf(heap, trees[1])) = 7

\* C4: Get(k) returns the item most recently stored under a key equal to k and
\* found = true when one was stored and not removed since, and found = false
\* otherwise.
C4_GetLatest ==
    \A t \in 1..Len(trees) : \A key \in Keys(dom) \cup {Item(0, 1)} :
        LET g == getHint(Tree(t), key, FALSE, FALSE)
        IN  IF \E x \in stored[t] : SameKey(x, key)
            THEN g.ok /\ g.val \in stored[t] /\ SameKey(g.val, key)
            ELSE ~g.ok /\ g.val = empty

\* Get finds an item whose payload differs from the key's, below the root, and
\* misses a key that is not stored
C4_Witness ==
    /\ Height(Tree(1)) = 2
    /\ \E x \in stored[1] :
          /\ x.v = 2
          /\ x \notin Range(heap[trees[1].root].items)
          /\ getHint(Tree(1), Item(x.k, 1), FALSE, FALSE) = [c |-> Tree(1), val |-> x, ok |-> TRUE]
    /\ \E key \in Keys(dom) : ~getHint(Tree(1), key, FALSE, FALSE).ok

\* C5 (as first stated): Len() equals all the inserting calls minus all the
\* removing calls the tree has completed: the calls since the last Clear add up
\* to Len(), and no Clear has taken away items that no removing call accounts for.
C5_LenAllCalls ==
    \A t \in 1..Len(trees) : trees[t].count = net[t] /\ ~lost[t]

\* C5 (amended): on a tree made empty, Len() equals the Upsert/Load calls that
\* inserted a new item minus the Delete/DeleteMin/DeleteMax/DeleteAt calls that
\* returned found = true, both counted since the tree was made or last cleared;
\* a call that replaces leaves Len() unchanged.
C5_LenSinceClear ==
    \A t \in 1..Len(trees) : Len_(Tree(t)) = net[t]

\* a tree refilled after a Clear that took items away
C5_Witness ==
    /\ lost[1]
    /\ net[1] = 5
    /\ Len_(Tree(1)) = 5

RoundTrip(c, x) ==
    CHOOSE ret \in {deleteHint(Ctx(u.c.heap, u.c.tr), x, FALSE) :
                      u \in {setHint(c, x, FALSE)}} : TRUE

\* the sequence out without the items equal to x
RECURSIVE Minus(_, _)
Minus(out, x) ==
    IF out = <<>> THEN <<>>
    ELSE IF SameKey(Head(out), x) THEN Minus(Tail(out), x)
    ELSE <<Head(out)>> \o Minus(Tail(out), x)

Holds(t, x) == \E y \in stored[t] : SameKey(x, y)

\* C7 (as first stated): for every item x, Upsert(x) and then Delete(x)
\* restores the prior Len() and leaves the prior Scan sequence with x removed.
C7_RoundTripRestoresLen ==
    \A t \in 1..Len(trees) : \A x \in dom :
        LET d == RoundTrip(Tree(t), x)
        IN  /\ Len_(d.c) = Len_(Tree(t))
            /\ ScanOf(d.c.heap, d.c.tr) = Minus(ScanOf(heap, trees[t]), x)

\* C7 (amended): for every item x, Upsert(x) and then Delete(x) leaves the
\* prior Scan sequence with x removed; it restores the prior Len() when no item
\* equal to x was stored and leaves Len() one lower when one was.
C7_RoundTrip ==
    \A t \in 1..Len(trees) : \A x \in dom :
        LET d == RoundTrip(Tree(t), x)
        IN  /\ d.found
            /\ Len_(d.c) = Len_(Tree(t)) - (IF Holds(t, x) THEN 1 ELSE 0)
            /\ ScanOf(d.c.heap, d.c.tr) = Minus(ScanOf(heap, trees[t]), x)

\* round trips through a tree of height 3, of an item that is stored and of one
\* that is not
C7_Witness ==
    /\ Height(Tree(1)) = 3
    /\ \E x \in dom : Holds(1, x) /\ Len_(RoundTrip(Tree(1), x).c) = Len_(Tree(1)) - 1
    /\ \E x \in dom : ~Holds(1, x) /\ Len_(RoundTrip(Tree(1), x).c) = Len_(Tree(1))

-----------------------------------------------------------------------------
(* Properties of trees related by IsoCopy (SpecIso).                       *)

\* C2: a tree and its IsoCopy are independent: when A holds k and B is
\* A.IsoCopy(), B.Delete(k) leaves A.Get(k) found, and an item a later call puts
\* into one of them is not returned by Get or Scan of the other.  Each tree's
\* Scan and Get answer with the items its own calls stored, the copy starting
\* from the source's items.
C2_Isolation ==
    \A t \in 1..Len(trees) :
        /\ Range(ScanOf(heap, trees[t])) = stored[t]
        /\ \A key \in Keys(dom) :
              LET g == getHint(Tree(t), key, FALSE, FALSE)
              IN  IF Holds(t, key) THEN g.ok /\ g.val \in stored[t] ELSE ~g.ok

\* A, of height 2, is as it was when B was copied from it; B has since deleted
\* a key and stored an item: A still finds the key and does not return the item
C2_Witness ==
    /\ Len(trees) = 2
    /\ Height(Tree(1)) = 2
    /\ \A n \in Reach(heap, <<trees[1].root>>) : heap[n].isoid # trees[1].isoid
    /\ \E x \in stored[1] :
          /\ ~Holds(2, x)
          /\ getHint(Tree(1), x, FALSE, FALSE).ok
          /\ ~getHint(Tree(2), x, FALSE, FALSE).ok
    /\ \E x \in stored[2] :
          /\ x \notin stored[1]
          /\ x \notin Range(ScanOf(heap, trees[1]))
          /\ getHint(Tree(1), x, FALSE, FALSE).val # x
          /\ getHint(Tree(2), x, FALSE, FALSE).val = x

\* C3: a call on one tree writes no node that another tree's root reaches:
\* every node it writes carries its tree's tag, a node with another tag being
\* copied first, and the other trees' Scan sequences stay what they were.
C3_NoSharedWrite ==
    /\ ~wrote.shared
    /\ ~wrote.foreign
    /\ wrote.kept

\* two trees that differ and still share nodes below roots of their own
C3_Witness ==
    /\ Len(trees) = 2
    /\ trees[1].root # 0 /\ trees[2].root # 0
    /\ heap[trees[1].root].isoid = trees[1].isoid
    /\ heap[trees[2].root].isoid = trees[2].isoid
    /\ Reach(heap, <<trees[1].root>>) \cap Reach(heap, <<trees[2].root>>) # {}
    /\ ScanOf(heap, trees[1]) # ScanOf(heap, trees[2])

-----------------------------------------------------------------------------
(* Properties of one tree with locks (SpecLock).                           *)

\* thread t is inside a method: it has entered it and has not returned
Holding(t) == th[t].pc \in {"in", "out"}

\* C8: with locking enabled, every public operation, Len() included, holds the
\* tree's lock for the whole time it reads or writes the tree's root, count or
\* nodes: a thread about to run the body of its method holds the lock.
C8_EveryOpHoldsLock ==
    \A t \in Threads : th[t].pc = "in" => mu.w = t \/ t \in mu.r

\* the operations the claim C9 calls pure reads, and those it calls mutating
PureRead(op) ==
    /\ ~op.mut
    /\ op.name \in {"Get", "GetHint", "Scan", "ReverseScan", "Ascend", "Descend",
                     "Min", "Max", "GetAt", "Height", "Walk", "Values"}

Mutator(op) ==
    \/ op.mut
    \/ op.name \in {"Upsert", "Delete", "Load", "DeleteMin", "DeleteMax", "DeleteAt",
                     "Clear", "IsoCopy"}

\* C9: with locking enabled, a pure read holds the lock in shared mode and an
\* operation that may mutate (the Mut variants and IsoCopy included) holds it in
\* exclusive mode, so a mutating operation overlaps no other locked operation
\* on the tree.
C9_LockModes ==
    \A t \in Threads :
        Holding(t) =>
            /\ PureRead(th[t].op) => t \in mu.r /\ mu.w = 0
            /\ Mutator(th[t].op) =>
                  /\ mu = [w |-> t, r |-> {}]
                  /\ \A u \in Threads \ {t} : ~(Holding(u) /\ locked(th[u].op))

\* a thread has run GetMut, which found the key, in exclusive mode, the tree
\* having been the source of an IsoCopy
C9_Witness ==
    \E t \in Threads :
        /\ th[t].pc = "out"
        /\ th[t].op.name = "Get" /\ th[t].op.mut
        /\ th[t].res.ok
        /\ mu = [w |-> t, r |-> {}]
        /\ gisoid = MaxIsoId

\* C10: with locking enabled, the calls on one tree are totally ordered by
\* lock acquisition: the results of concurrently issued Upsert, Delete and Get
\* calls are those of the same calls run one by one in the order in which they
\* took the lock, and so is the tree once every call has returned.
C10_LockOrder ==
    /\ \A t \in Threads :
          th[t].pc = "out" /\ th[t].op.name \in {"Upsert", "Delete", "Get"}
              => th[t].res = th[t].exp
    /\ (\A t \in Threads : th[t].pc = "idle") => seq = [heap |-> heap, tr |-> trees[1]]

\* two Get calls have run side by side, one finding its key and one not
C10_Witness ==
    /\ mu = [w |-> 0, r |-> Threads]
    /\ \A t \in Threads : th[t].pc = "out" /\ th[t].op.name = "Get"
    /\ \E t \in Threads : th[t].res.ok /\ th[t].res.val = th[t].op.key
    /\ \E t \in Threads : ~th[t].res.ok

-----------------------------------------------------------------------------
(* Properties of the owner tags (SpecTag).                                 *)

\* C11: owner tags are unique: the calls of newIsoID, from whichever threads
\* and in whichever order, return values that differ from one another, and no
\* two trees made by NewBTreeOptions or IsoCopy hold the same tag at the same
\* time, the source and the copy of an IsoCopy included (the trees the callers
\* hold, and those a call has finished tagging and is about to return).
C11_UniqueTags ==
    LET Made == {t \in TagThreads : th[t].pc \in {"new", "made"}}
    IN  /\ \A i, j \in 1..Len(seq) : i # j => seq[i] # seq[j]
        /\ \A i, j \in 1..Len(trees) : i # j => trees[i].isoid # trees[j].isoid
        /\ \A t \in Made :
              /\ \A i \in 1..Len(trees) : th[t].tr.isoid # trees[i].isoid
              /\ \A v \in Made \ {t} : th[t].tr.isoid # th[v].tr.isoid

\* an IsoCopy has returned whose two calls of newIsoID another thread's call
\* came between: source and copy hold tags that are not neighbours
C11_Witness ==
    /\ Len(trees) >= 3
    /\ \E i, j \in 1..Len(trees) :
          /\ trees[j].isoid > trees[i].isoid + 1
          /\ \A k \in 1..Len(trees) : trees[k].isoid <= trees[j].isoid
          /\ \E k \in 1..Len(trees) :
                trees[i].isoid < trees[k].isoid /\ trees[k].isoid < trees[j].isoid
    /\ \E t \in TagThreads : th[t].pc = "locked"

-----------------------------------------------------------------------------
(* Properties of the single calls on one tree (Spec).                      *)

\* C12: Upsert(item) on a tree that holds an item equal to it returns that
\* item and true and stores the new item in its place, in a leaf or in an
\* internal node, every other item staying where it is in the Scan sequence;
\* on a tree that holds none it returns the zero value and false and adds it.
C12_UpsertReplaces ==
    \A t \in 1..Len(trees) : \A x \in dom :
        LET r == setHint(Tree(t), x, FALSE)
            before == ScanOf(heap, trees[t])
            after == ScanOf(r.c.heap, r.c.tr)
        IN  IF Holds(t, x)
            THEN /\ r.replaced
                 /\ r.prev \in stored[t] /\ SameKey(r.prev, x)
                 /\ Len_(r.c) = Len_(Tree(t))
                 /\ Len(after) = Len(before)
                 /\ \A i \in 1..Len(before) :
                       after[i] = IF SameKey(before[i], x) THEN x ELSE before[i]
            ELSE /\ ~r.replaced
                 /\ r.prev = empty
                 /\ Len_(r.c) = Len_(Tree(t)) + 1
                 /\ Ascending(after)
                 /\ x \in Range(after)
                 /\ Minus(after, x) = before

\* a tree of height 2 where Upsert replaces an item of the root by one with
\* another payload, replaces an item of a leaf, and adds an item
C12_Witness ==
    /\ Height(Tree(1)) = 2
    /\ \E x \in dom :
          /\ x \notin stored[1]
          /\ \E y \in Range(heap[trees[1].root].items) :
                SameKey(x, y) /\ setHint(Tree(1), x, FALSE).prev = y
    /\ \E x \in dom :
          /\ x \notin stored[1]
          /\ \A y \in Range(heap[trees[1].root].items) : ~SameKey(x, y)
          /\ setHint(Tree(1), x, FALSE).replaced
    /\ \E x \in dom : ~setHint(Tree(1), x, FALSE).replaced

\* C13: Delete(k) for a key the tree holds returns the stored item equal to k
\* and true, whether the item sits in a leaf or in an internal node, and the
\* Scan sequence afterwards is the prior one with exactly that item removed.
C13_DeletePresent ==
    \A t \in 1..Len(trees) : \A key \in Keys(dom) :
        Holds(t, key) =>
            LET r == deleteHint(Tree(t), key, FALSE)
                before == ScanOf(heap, trees[t])
                after == ScanOf(r.c.heap, r.c.tr)
            IN  /\ r.found
                /\ r.prev \in stored[t] /\ SameKey(r.prev, key)
                /\ Len(after) = Len(before) - 1
                /\ \E i \in 1..Len(before) :
                      /\ before[i] = r.prev
                      /\ after = SubSeq(before, 1, i - 1) \o SubSeq(before, i + 1, Len(before))

\* a tree of height 3 from which Delete takes the item of the root, an item
\* of a node between the root and the leaves, and an item of a leaf
C13_Witness ==
    /\ Height(Tree(1)) = 3
    /\ \E p \in 1..Len(heap) :
          /\ p # trees[1].root /\ ~heap[p].leaf
          /\ \E x \in Range(heap[p].items) : deleteHint(Tree(1), x, FALSE).prev = x
    /\ \E p \in 1..Len(heap) :
          /\ heap[p].leaf
          /\ \E x \in Range(heap[p].items) : deleteHint(Tree(1), x, FALSE).prev = x
    /\ \E x \in Range(heap[trees[1].root].items) :
          /\ deleteHint(Tree(1), x, FALSE).prev = x
          /\ x \notin Range(ScanOf(deleteHint(Tree(1), x, FALSE).c.heap,
                                   deleteHint(Tree(1), x, FALSE).c.tr))

\* C14: Delete(k) for a key the tree does not hold returns found = false and
\* leaves Len(), the Scan sequence and the cached count of every node of the
\* tree as they were.
C14_DeleteAbsent ==
    \A t \in 1..Len(trees) : \A key \in Keys(dom) \cup {Item(0, 1)} :
        ~Holds(t, key) =>
            LET r == deleteHint(Tree(t), key, FALSE)
                before == visitOrder(heap, <<trees[t].root>>, <<>>)
                after == visitOrder(r.c.heap, <<r.c.tr.root>>, <<>>)
            IN  /\ ~r.found /\ r.prev = empty
                /\ Len_(r.c) = Len_(Tree(t))
                /\ ScanOf(r.c.heap, r.c.tr) = ScanOf(heap, trees[t])
                /\ Len(after) = Len(before)
                /\ \A i \in 1..Len(before) :
                      r.c.heap[after[i]].count = heap[before[i]].count

\* Delete misses a key in a tree of height 3, after a descent to a leaf where the
\* key falls between the stored keys
C14_Witness ==
    /\ Height(Tree(1)) = 3
    /\ \E key \in Keys(dom) :
          /\ ~Holds(1, key)
          /\ \E x, y \in stored[1] : less(x, key) /\ less(key, y)
          /\ deleteHint(Tree(1), key, FALSE).c.heap = heap
          /\ ~deleteHint(Tree(1), key, FALSE).found

RECURSIVE Drain(_, _)
Drain(c, k) ==
    IF k = 0 THEN [c |-> c, out |-> <<>>, ok |-> TRUE, fast |-> {}]
    ELSE LET r == DeleteMin(Ctx(c.heap, c.tr))
             rest == Drain(r.c, k - 1)
         IN  [c |-> rest.c,
              out |-> <<r.prev>> \o rest.out,
              ok |-> /\ r.found
                     /\ r.prev = minMut(Ctx(c.heap, c.tr), FALSE).val
                     /\ ScanOf(r.c.heap, r.c.tr) = Tail(ScanOf(c.heap, c.tr))
                     /\ rest.ok,
              fast |-> {edgeDescend(Ctx(c.heap, c.tr), c.tr.root, FALSE).done}
                       \cup rest.fast]

\* C16: from any tree, DeleteMin called Len() times returns the stored items
\* in strictly ascending order, each call returning the minimum of the moment
\* with found = true, and leaves Len() = 0; the removal during the descent and
\* the fallback through the deletion by key take the same item, the minimum.
C16_DeleteMinDrains ==
    \A t \in 1..Len(trees) :
        LET d == Drain(Tree(t), Len_(Tree(t)))
        IN  /\ d.ok
            /\ d.out = ScanOf(heap, trees[t])
            /\ Ascending(d.out)
            /\ Len_(d.c) = 0 /\ d.c.tr.root = 0
            /\ ~DeleteMin(Ctx(d.c.heap, d.c.tr)).found

\* a full tree of height 3 is drained, by calls that take either way
C16_Witness ==
    /\ Height(Tree(1)) = 3
    /\ Len_(Tree(1)) = 10
    /\ Drain(Tree(1), 10).fast = {TRUE, FALSE}
    /\ Len(Drain(Tree(1), 10).out) = 10

\* C17: on an empty tree Min, Max, DeleteMin, DeleteMax, Get, GetAt and
\* DeleteAt return found = false (and the zero value), and the tree stays
\* empty: Len() = 0 and Height() = 0 before and after each of them.
C17_EmptyTree ==
    \A t \in 1..Len(trees) :
        Len_(Tree(t)) = 0 =>
            LET Miss(r) == ~r.ok /\ r.val = empty
                NoneTaken(r) == ~r.found /\ r.prev = empty
                StaysEmpty(c) ==
                    /\ Len_(c) = 0 /\ Height(c) = 0
                    /\ c.heap = heap /\ c.tr = trees[t]
                Read(r) == Miss(r) /\ StaysEmpty(r.c)
                Take(r) == NoneTaken(r) /\ StaysEmpty(r.c)
            IN  /\ StaysEmpty(Tree(t))
                /\ \A mut \in BOOLEAN :
                      /\ Read(minMut(Tree(t), mut))
                      /\ Read(maxMut(Tree(t), mut))
                      /\ \A key \in Keys(dom) : Read(getHint(Tree(t), key, FALSE, mut))
                      /\ \A i \in -1..1 : Read(getAt(Tree(t), i, mut))
                /\ Take(DeleteMin(Tree(t)))
                /\ Take(DeleteMax(Tree(t)))
                /\ \A i \in -1..1 : Take(DeleteAt(Tree(t), i))

\* a tree that Clear has taken items from is empty, Min and DeleteMin find nothing
C17_Witness ==
    /\ lost[1]
    /\ Len_(Tree(1)) = 0
    /\ stored[1] = {}
    /\ ~minMut(Tree(1), FALSE).ok
    /\ ~DeleteMin(Tree(1)).found

\* the pivots a caller may pass: the keys of the domain, one below and one above
Pivots == Keys(dom) \cup {Item(0, 1), Item(NKeys + 1, 1)}

\* C18: Ascend(pivot, iter) calls iter on exactly the stored items that are
\* not less than pivot, in ascending order, whether pivot is stored or not and
\* whether its place is in a leaf or at a separator of an internal node.
C18_AscendFromPivot ==
    \A t \in 1..Len(trees) : \A pivot \in Pivots :
        LET NotBelow(x) == ~less(x, pivot)
        IN  ascend(Tree(t), pivot, FALSE).out = SelectSeq(ScanOf(heap, trees[t]), NotBelow)

\* in a tree of height 3, Ascend starts at a separator of the root, at an item
\* of a leaf, and at a pivot that is not stored with items on either side
C18_Witness ==
    /\ Height(Tree(1)) = 3
    /\ \E pivot \in Range(heap[trees[1].root].items) :
          /\ Head(ascend(Tree(1), pivot, FALSE).out) = pivot
          /\ Len(ascend(Tree(1), pivot, FALSE).out) > 3
    /\ \E p \in 1..Len(heap) : \E pivot \in Range(heap[p].items) :
          /\ heap[p].leaf
          /\ Head(ascend(Tree(1), pivot, FALSE).out) = pivot
          /\ Len(ascend(Tree(1), pivot, FALSE).out) > 3
    /\ \E pivot \in Pivots :
          /\ ~Holds(1, pivot)
          /\ Len(ascend(Tree(1), pivot, FALSE).out) > 3
          /\ Len(ascend(Tree(1), pivot, FALSE).out) < Len_(Tree(1))

\* the sequence s back to front
Reverse(s) == [i \in 1..Len(s) |-> s[Len(s) + 1 - i]]

\* C19: Descend(pivot, iter) calls iter on exactly the stored items that are
\* not greater than pivot, in descending order, whether pivot is stored or not
\* and whether its place is in a leaf or at a separator of an internal node.
C19_DescendFromPivot ==
    \A t \in 1..Len(trees) : \A pivot \in Pivots :
        LET NotAbove(x) == ~less(pivot, x)
        IN  descend(Tree(t), pivot, FALSE).out =
                Reverse(SelectSeq(ScanOf(heap, trees[t]), NotAbove))

\* in a tree of height 3, Descend starts at a separator of the root, at an item
\* of a leaf, and at a pivot that is not stored with items on either side
C19_Witness ==
    /\ Height(Tree(1)) = 3
    /\ \E pivot \in Range(heap[trees[1].root].items) :
          /\ Head(descend(Tree(1), pivot, FALSE).out) = pivot
          /\ Len(descend(Tree(1), pivot, FALSE).out) > 3
    /\ \E p \in 1..Len(heap) : \E pivot \in Range(heap[p].items) :
          /\ heap[p].leaf
          /\ Head(descend(Tree(1), pivot, FALSE).out) = pivot
          /\ Len(descend(Tree(1), pivot, FALSE).out) > 3
    /\ \E pivot \in Pivots :
          /\ ~Holds(1, pivot)
          /\ Len(descend(Tree(1), pivot, FALSE).out) > 3
          /\ Len(descend(Tree(1), pivot, FALSE).out) < Len_(Tree(1))

\* C20: in Scan, ReverseScan, Ascend, Descend and Walk, once the visitor has
\* returned false it is not called again and the traversal returns: with a
\* visitor that returns false at its lim-th call, the calls made are the first
\* lim calls of the traversal that runs to its end, or all of them when it makes
\* fewer than lim.
C20_StopIsFinal ==
    \A t \in 1..Len(trees) :
        LET Until(lim) == [Tree(t) EXCEPT !.lim = lim]
            Cut(out, full, lim) ==
                out = SubSeq(full, 1, IF lim < Len(full) THEN lim ELSE Len(full))
        IN  \A lim \in 1..(Len_(Tree(t)) + 1) :
                /\ Cut(scan(Until(lim), FALSE).out, scan(Tree(t), FALSE).out, lim)
                /\ Cut(reverse(Until(lim), FALSE).out, reverse(Tree(t), FALSE).out, lim)
                /\ Cut(walk(Until(lim), FALSE).out, walk(Tree(t), FALSE).out, lim)
                /\ \A pivot \in Pivots :
                      /\ Cut(ascend(Until(lim), pivot, FALSE).out,
                             ascend(Tree(t), pivot, FALSE).out, lim)
                      /\ Cut(descend(Until(lim), pivot, FALSE).out,
                             descend(Tree(t), pivot, FALSE).out, lim)

\* on a full tree of height 3 the visitor stops Scan inside the first leaf,
\* ReverseScan at a separator, Walk after two slices, and Ascend and Descend from
\* a pivot in the middle after two items
C20_Witness ==
    /\ Height(Tree(1)) = 3
    /\ Len_(Tree(1)) = 10
    /\ scan([Tree(1) EXCEPT !.lim = 1], FALSE).out = <<Item(1, 1)>>
    /\ reverse([Tree(1) EXCEPT !.lim = 2], FALSE).out = <<Item(10, 1), Item(9, 1)>>
    /\ Len(walk([Tree(1) EXCEPT !.lim = 2], FALSE).out) = 2
    /\ Len(walk(Tree(1), FALSE).out) > 2
    /\ ascend([Tree(1) EXCEPT !.lim = 2], Item(5, 1), FALSE).out = <<Item(5, 1), Item(6, 1)>>
    /\ descend([Tree(1) EXCEPT !.lim = 2], Item(5, 1), FALSE).out = <<Item(5, 1), Item(4, 1)>>

\* C21: for every node, key, depth and PathHint entry (used or not, the
\* cached index right, stale or beyond the node's items), hintsearch returns
\* the index and found that bsearch returns; and GetHint, SetHint and
\* DeleteHint, called with a hint (none used, one left by a search for the key
\* or for another key, one with the same index at every depth), return the
\* results and leave the tree that the same call with no hint returns and leaves.
C21_HintChangesNothing ==
    \A t \in 1..Len(trees) :
        LET Entry(depth, used, path) ==
                IF depth < HintDepth
                THEN [NoHint EXCEPT !.used[depth + 1] = used, !.path[depth + 1] = path]
                ELSE [used |-> [i \in 1..HintDepth |-> used],
                      path |-> [i \in 1..HintDepth |-> path]]
            Same(r, b) == r.index = b.index /\ r.found = b.found
            Flat(path) == [used |-> [i \in 1..HintDepth |-> TRUE],
                           path |-> [i \in 1..HintDepth |-> path]]
            \* the hints tried on a call for key: none used, the same index at every
            \* depth, and those left by the search for the key and for keys near it
            Hints(key) ==
                {NoHint}
                \cup {Flat(path) : path \in {0, 2, Uint8 - 1}}
                \cup {getHint(Tree(t), k, TRUE, FALSE).c.hint :
                        k \in {k \in Keys(dom) : k.k - key.k \in {-3, 0, 1}}}
            With(hint) == [Tree(t) EXCEPT !.hint = hint]
            SameTree(a, b) == a.heap = b.heap /\ a.tr = b.tr
            SameRead(a, b) == a.val = b.val /\ a.ok = b.ok /\ SameTree(a.c, b.c)
            SameSet(a, b) == a.prev = b.prev /\ a.replaced = b.replaced /\ SameTree(a.c, b.c)
            SameDelete(a, b) == a.prev = b.prev /\ a.found = b.found /\ SameTree(a.c, b.c)
        IN  /\ \A p \in 1..Len(heap) : \A key \in Pivots :
                  \A depth \in {0, HintDepth - 1, HintDepth} :
                      /\ Same(hintsearch(heap[p], key, Entry(depth, FALSE, 0), depth),
                              bsearch(heap[p].items, key))
                      /\ \A path \in 0..(Len(heap[p].items) + 1) \cup {Uint8 - 1} :
                            Same(hintsearch(heap[p], key, Entry(depth, TRUE, path), depth),
                                 bsearch(heap[p].items, key))
            /\ \A key \in Keys(dom) :
                  LET got == getHint(Tree(t), key, FALSE, FALSE)
                      deleted == deleteHint(Tree(t), key, FALSE)
                  IN  \A hint \in Hints(key) :
                          /\ SameRead(getHint(With(hint), key, TRUE, FALSE), got)
                          /\ SameDelete(deleteHint(With(hint), key, TRUE), deleted)
            /\ \A item \in dom :
                  LET set == setHint(Tree(t), item, FALSE)
                  IN  \A hint \in Hints(item) :
                          SameSet(setHint(With(hint), item, TRUE), set)

\* in a tree of height 3: a hint left by the search for one key is used, stale,
\* for another key that is found, and a hint whose indices lie beyond every
\* node's items is used for a key that is deleted
C21_Witness ==
    /\ Height(Tree(1)) = 3
    /\ \E k1, k2 \in Keys(dom) :
          /\ ~SameKey(k1, k2)
          /\ Holds(1, k2)
          /\ getHint(Tree(1), k1, TRUE, FALSE).c.hint.used[3]
          /\ getHint(Tree(1), k1, TRUE, FALSE).c.hint
                # getHint(Tree(1), k2, TRUE, FALSE).c.hint
          /\ getHint([Tree(1) EXCEPT !.hint = getHint(Tree(1), k1, TRUE, FALSE).c.hint],
                     k2, TRUE, FALSE).ok
    /\ \E key \in Keys(dom) :
          deleteHint([Tree(1) EXCEPT !.hint =
                          [used |-> [i \in 1..HintDepth |-> TRUE],
                           path |-> [i \in 1..HintDepth |-> Uint8 - 1]]],
                     key, TRUE).found

\* C22: Load(item) returns what Upsert(item) returns and leaves the Scan
\* sequence and the Len() that Upsert(item) leaves (and the same tree, node
\* for node), whether item is greater than the maximum or not and whether the
\* rightmost leaf is full or not.
C22_LoadAsUpsert ==
    \A t \in 1..Len(trees) : \A x \in dom :
        LET l == Load(Tree(t), x)
            u == setHint(Tree(t), x, FALSE)
        IN  /\ l.prev = u.prev /\ l.replaced = u.replaced
            /\ ScanOf(l.c.heap, l.c.tr) = ScanOf(u.c.heap, u.c.tr)
            /\ Len_(l.c) = Len_(u.c)
            /\ Kept(l.c) = Kept(u.c)

\* on a tree of height 3 Load appends an item above the maximum to the
\* rightmost leaf, which is then full, so that the Load of a greater item falls
\* back on the insertion; and Load falls back for an item equal to a stored one
C22_Witness ==
    LET Fast(c, x) == loadDescend(c, c.tr.root, x).done
    IN  /\ Height(Tree(1)) = 3
        /\ \E x \in dom : ~Fast(Tree(1), x) /\ Load(Tree(1), x).replaced
        /\ \E x \in dom :
              LET l == Load(Tree(1), x)
              IN  /\ Fast(Tree(1), x)
                  /\ ~l.replaced
                  /\ \E y \in dom :
                        /\ less(x, y)
                        /\ ~Fast(Ctx(l.c.heap, l.c.tr), y)
                        /\ ~Load(Ctx(l.c.heap, l.c.tr), y).replaced

-----------------------------------------------------------------------------
(* Properties of Clear and IsoCopy on trees related by IsoCopy (SpecIso).  *)

\* C23: after Clear(), Len() = 0 and Get of every key returns found = false,
\* and the tree takes new items as an empty tree does; a tree obtained from it
\* by IsoCopy before keeps its contents.  In every state, the cleared and the
\* refilled trees included, each tree's Scan and Len() are those of the items
\* its own calls left; and Clear on any tree touches no node.
C23_ClearEmpties ==
    \A t \in 1..Len(trees) :
        /\ ScanOf(heap, trees[t]) = Sorted(stored[t])
        /\ Len_(Tree(t)) = Cardinality(stored[t])
        /\ LET c == Clear(Tree(t))
           IN  /\ Len_(c) = 0
               /\ c.heap = heap
               /\ ScanOf(c.heap, c.tr) = <<>>
               /\ \A key \in Keys(dom) : ~getHint(c, key, FALSE, FALSE).ok
               /\ \A x \in dom :
                     LET u == setHint(Ctx(c.heap, c.tr), x, FALSE)
                     IN  /\ ~u.replaced
                         /\ Len_(u.c) = 1
                         /\ ScanOf(u.c.heap, u.c.tr) = <<x>>
                         /\ \A v \in 1..Len(trees) \ {t} :
                               ScanOf(u.c.heap, trees[v]) = Sorted(stored[v])

\* Clear has taken the items of tree 1, which has taken a new item since; the
\* other tree, related to it by IsoCopy, holds every key, in a tree of height 2
C23_Witness ==
    /\ Len(trees) = 2
    /\ lost[1] /\ ~lost[2]
    /\ Len_(Tree(1)) = 1
    /\ Height(Tree(2)) = 2
    /\ Len_(Tree(2)) = IsoKeys
    /\ \A key \in Keys(dom) : getHint(Tree(2), key, FALSE, FALSE).ok

-----------------------------------------------------------------------------
(* The shape of one tree between calls (Spec).                             *)

\* the nodes tree t reaches from its root
Nodes(t) == Reach(heap, <<trees[t].root>>)

\* C24: after every completed operation, every node reached from the root but
\* the root holds at least min and at most max items, and the root, when
\* there is one, holds between 1 and max items.
C24_NodeOccupancy ==
    \A t \in 1..Len(trees) :
        /\ trees[t].max = 2 * Degree - 1
        /\ trees[t].min = trees[t].max \div 2
        /\ \A n \in Nodes(t) :
              /\ Len(heap[n].items) <= trees[t].max
              /\ Len(heap[n].items) >= IF n = trees[t].root THEN 1 ELSE trees[t].min

\* a tree of height 3 whose root holds one item, with a node that is full and
\* a node at the minimum below it, after a Clear and the calls that rebuilt it
C24_Witness ==
    /\ Height(Tree(1)) = 3
    /\ lost[1]
    /\ Len(heap[trees[1].root].items) = 1
    /\ \E n \in Nodes(1) \ {trees[1].root} : Len(heap[n].items) = trees[1].max
    /\ \E n \in Nodes(1) \ {trees[1].root} : Len(heap[n].items) = trees[1].min
    /\ Len_(Tree(1)) < NKeys

\* the depths of the leaves below node n, n at depth 1
RECURSIVE LeafDepths(_, _)
LeafDepths(h, n) ==
    IF h[n].leaf THEN {1}
    ELSE {d + 1 : d \in UNION {LeafDepths(h, h[n].children[i]) :
                                 i \in 1..Len(h[n].children)}}

\* C25: after every completed operation all leaves of a tree are at the same
\* depth, the one Height() measures along the leftmost path; a node is a leaf
\* exactly when it has no children, and an inner node has one child more than
\* items.
C25_LeavesLevel ==
    \A t \in 1..Len(trees) :
        /\ trees[t].root = 0 => Height(Tree(t)) = 0
        /\ trees[t].root # 0 => LeafDepths(heap, trees[t].root) = {Height(Tree(t))}
        /\ \A n \in Nodes(t) :
              /\ heap[n].leaf <=> heap[n].children = <<>>
              /\ ~heap[n].leaf => Len(heap[n].children) = Len(heap[n].items) + 1

\* a tree of height 3 with two inner nodes below the root and leaves of
\* different sizes, after items were taken out again
C25_Witness ==
    /\ Height(Tree(1)) = 3
    /\ Len(heap[trees[1].root].children) = 2
    /\ Cardinality({n \in Nodes(1) : heap[n].leaf}) >= 4
    /\ \E n, m \in Nodes(1) :
          heap[n].leaf /\ heap[m].leaf /\ Len(heap[n].items) # Len(heap[m].items)
    /\ Len_(Tree(1)) < NKeys

C27_EmptyIffNoRoot ==
    LET Good(c) == (c.tr.count = 0) <=> (c.tr.root = 0)
        c == Tree(1)
    IN  /\ \A t \in 1..Len(trees) : (trees[t].count = 0) <=> (trees[t].root = 0)
        /\ \A x \in dom : Good(setHint(c, x, FALSE).c) /\ Good(Load(c, x).c)
        /\ \A key \in Keys(dom) : Good(deleteHint(c, key, FALSE).c)
        /\ Good(DeleteMin(c).c)
        /\ Good(DeleteMax(c).c)
        /\ \A index \in -1..Len_(c) : Good(DeleteAt(c, index).c)
        /\ Good(Clear(c))

\* a tree that holds one item, after a Clear took the items it had: Delete of
\* the item, DeleteMin, DeleteMax and DeleteAt(0) leave it without a root
C27_Witness ==
    LET c == Tree(1)
    IN  /\ lost[1]
        /\ Len_(c) = 1
        /\ c.tr.root # 0
        /\ \E x \in stored[1] : deleteHint(c, x, FALSE).c.tr.root = 0
        /\ DeleteMin(c).c.tr.root = 0
        /\ DeleteMax(c).c.tr.root = 0
        /\ DeleteAt(c, 0).c.tr.root = 0

-----------------------------------------------------------------------------
(* Properties of the red-black tree (SpecLLRB).                            *)

\* C28: for every sequence of Upsert, Insert, Delete, DeleteMin and DeleteMax
\* calls on an LLRB tree, rotateLeft and rotateRight are never called on a
\* black link: no call ends in the panic "rotating a black link", neither a
\* call made nor any call that can be made next.
C28_NoBlackRotation ==
    LET root == trees[1].root
        Black(r) == "panic" \in DOMAIN r /\ r.panic = "rotating a black link"
    IN  /\ \A i \in 1..Len(th) : th[i] # "rotating a black link"
        /\ th = <<>> =>
              /\ \A item \in dom :
                    /\ ~Black(replaceOrInsert(root, item))
                    /\ ~Black(insertNoReplace(root, item))
                    /\ ~Black(LLRBdelete(root, item))
              /\ ~Black(deleteMin(root))
              /\ ~Black(deleteMax(root))

\* a tree on which Delete of a key below the root's calls moveRedLeft at the
\* root, which rotates right then left: both links on the left are black and
\* the right child's left link is red
C28_Witness ==
    LET root == trees[1].root
    IN  /\ th = <<>>
        /\ root # nil
        /\ root.Left # nil /\ ~isRed(root.Left) /\ ~isRed(root.Left.Left)
        /\ root.Right # nil /\ isRed(root.Right.Left)
        /\ \E key \in dom :
              /\ less(key, root.Item)
              /\ LET r == LLRBdelete(root, key)
                 IN  "panic" \notin DOMAIN r /\ r.ok /\ r.h.Item = root.Right.Left.Item

\* C29: LLRB.AscendRange(lo, hi, iter) calls iter on exactly the stored items
\* x with lo <= x < hi under the comparator, in ascending order, for the
\* contents Upsert builds, and those the deleting calls and Insert of keys
\* that are not in the tree make of them; an iterator that answers false
\* gets no further call.
C29_AscendRange ==
    LET root == trees[1].root
        Bounds == dom \cup {Item(0, 1), Item(LLRBKeys + 1, 1)}
        Within(lo, hi) ==
            LET In(x) == ~less(x, lo) /\ less(x, hi) IN SelectSeq(seq, In)
    IN  th = <<>> /\ ~lost[1] =>
            \A lo, hi \in Bounds :
                /\ ascendRange(root, lo, hi, <<>>, 0) =
                        [out |-> Within(lo, hi), go |-> TRUE]
                /\ \A lim \in 1..Len(Within(lo, hi)) :
                      ascendRange(root, lo, hi, <<>>, lim) =
                        [out |-> SubSeq(Within(lo, hi), 1, lim), go |-> FALSE]

\* a tree that holds every key once, with a range that begins above the
\* least item, ends at the greatest, which it leaves out, and takes in the
\* root's item
C29_Witness ==
    LET root == trees[1].root
    IN  /\ th = <<>> /\ ~lost[1]
        /\ trees[1].count = LLRBKeys
        /\ \A i \in 1..Len(seq) - 1 : less(seq[i], seq[i + 1])
        /\ \E lo, hi \in dom :
              /\ Len(ascendRange(root, lo, hi, <<>>, 0).out) = 2
              /\ ~less(root.Item, lo) /\ less(root.Item, hi)
              /\ less(seq[1], lo) /\ SameKey(hi, seq[Len(seq)])

-----------------------------------------------------------------------------
(* The frame of IsoCopy (SpecIso).                                         *)

\* C30: IsoCopy creates and modifies no node: right after it the source and
\* the copy point at the same root node, which carries the tag it had, the
\* tag of neither tree now; both trees have the Len() and the Scan sequence
\* the source had before; and of the source's fields only the tag has
\* changed.  This holds of IsoCopy applied to any tree in any state, and of
\* the step in which a tree calls it, which leaves the heap and the other
\* trees as they were.
C30_IsoCopyFrame ==
    [][LET \* the fields of the source and of the copy
           Framed(h, tr, r) ==
               /\ r.tr.root = tr.root /\ r.tr2.root = tr.root
               /\ tr.root # 0 => h[tr.root].isoid \notin {r.tr.isoid, r.tr2.isoid}
               /\ r.tr.isoid # tr.isoid
               /\ r.tr = [tr EXCEPT !.isoid = r.tr.isoid]
               /\ r.tr2 = [tr EXCEPT !.isoid = r.tr2.isoid]
               /\ r.tr2.isoid # r.tr.isoid
           \* what the two trees report
           Reported(h, tr, r) ==
               /\ Len_(Ctx(h, r.tr)) = tr.count /\ Len_(Ctx(h, r.tr2)) = tr.count
               /\ ScanOf(h, r.tr) = ScanOf(heap, tr)
               /\ ScanOf(h, r.tr2) = ScanOf(heap, tr)
       IN  /\ \A t \in 1..Len(trees) :
                 Framed(heap, trees[t], IsoCopy(trees[t], gisoid))
           /\ Len(trees') = Len(trees) + 1 =>
                 /\ heap' = heap
                 /\ \E t \in 1..Len(trees) :
                       \E r \in {[tr |-> trees'[t], tr2 |-> trees'[Len(trees')]]} :
                           /\ Framed(heap', trees[t], r)
                           /\ Reported(heap', trees[t], r)
                           /\ \A u \in 1..Len(trees) \ {t} : trees'[u] = trees[u]]_vars

\* the state IsoCopy leaves: two trees on one root of a tree of height 2,
\* which carries the tag of neither
C30_Witness ==
    /\ Len(trees) = 2
    /\ trees[1].root # 0
    /\ trees[1].root = trees[2].root
    /\ heap[trees[1].root].isoid \notin {trees[1].isoid, trees[2].isoid}
    /\ Height(Tree(2)) = 2
    /\ ScanOf(heap, trees[1]) = ScanOf(heap, trees[2])
    /\ wrote = NoWrite

-----------------------------------------------------------------------------
(* What a call on one of the trees related by IsoCopy copies (SpecIso).    *)

C32_TagOwnership ==
    /\ \A t \in 1..Len(trees) :
          /\ \A n \in 1..Len(heap) : heap[n].isoid = trees[t].isoid => n \in Nodes(t)
          /\ \A u \in 1..Len(trees) \ {t} :
                /\ trees[u].isoid # trees[t].isoid
                /\ \A n \in Nodes(u) : heap[n].isoid # trees[t].isoid
    /\ ~wrote.foreign
    /\ \A t \in 1..Len(trees) :
          /\ \A x \in dom :
                /\ ~setHint(Tree(t), x, FALSE).c.fw
                /\ ~Load(Tree(t), x).c.fw
                /\ ~deleteHint(Tree(t), x, FALSE).c.fw
          /\ ~DeleteMin(Tree(t)).c.fw
          /\ ~DeleteMax(Tree(t)).c.fw
          /\ \A index \in 0..Len_(Tree(t)) - 1 : ~DeleteAt(Tree(t), index).c.fw

\* two trees, each with nodes of its own tag, over nodes they both reach,
\* which carry the tag of neither
C32_Witness ==
    /\ Len(trees) = 2
    /\ \A t \in 1..2 : \E n \in Nodes(t) : heap[n].isoid = trees[t].isoid
    /\ \E n \in Nodes(1) \cap Nodes(2) : heap[n].isoid \notin {trees[1].isoid, trees[2].isoid}
    /\ \E n \in Nodes(1) \ Nodes(2) : heap[n].leaf
    /\ \E n \in Nodes(2) \ Nodes(1) : heap[n].leaf

\* C33: every read with mut (GetMut, GetHintMut, MinMut, MaxMut, GetAtMut,
\* ScanMut, AscendMut, DescendMut, ReverseScanMut, WalkMut, ItemsMut) answers
\* as the read without mut does, which changes nothing; when it returns,
\* every item it yielded is stored in a node that carries the calling tree's
\* tag and that no other tree reaches, a visit of the whole tree leaves every
\* node of the tree with the tree's tag, and no node written carried
\* another tag.
C33_MutReads ==
    \A t \in 1..Len(trees) :
        LET c == Tree(t)
            others(h) == Reach(h, [u \in 1..Len(trees) |->
                                      IF u = t THEN 0 ELSE trees[u].root])
            \* the items xs are in nodes of the tree's own
            Own(m, xs) ==
                \A n \in Reach(m.heap, <<m.tr.root>>) :
                    Range(m.heap[n].items) \cap xs # {} =>
                        m.heap[n].isoid = m.tr.isoid /\ n \notin others(m.heap)
            Whole(m) ==
                \A n \in Reach(m.heap, <<m.tr.root>>) : m.heap[n].isoid = m.tr.isoid
            Quiet(m, p) ==
                /\ p.heap = heap /\ p.tr = trees[t]
                /\ ~m.fw
                /\ \A u \in 1..Len(trees) \ {t} :
                      ScanOf(m.heap, trees[u]) = ScanOf(heap, trees[u])
            Value(m, p) ==
                /\ m.val = p.val /\ m.ok = p.ok
                /\ Quiet(m.c, p.c)
                /\ m.ok => Own(m.c, {m.val})
            Visits(m, p, yielded) ==
                /\ m.out = p.out
                /\ Quiet(m, p)
                /\ Own(m, yielded)
            Limited(l) == [c EXCEPT !.lim = l]
            Slices(out) == UNION {Range(out[i]) : i \in 1..Len(out)}
        IN  /\ \A key \in Keys(dom) : \A h \in BOOLEAN :
                  Value(getHint(c, key, h, TRUE), getHint(c, key, h, FALSE))
            /\ Value(minMut(c, TRUE), minMut(c, FALSE))
            /\ Value(maxMut(c, TRUE), maxMut(c, FALSE))
            /\ \A index \in -1..Len_(c) :
                  Value(getAt(c, index, TRUE), getAt(c, index, FALSE))
            /\ \A l \in 0..2 :
                  /\ LET m == scan(Limited(l), TRUE)
                     IN  Visits(m, scan(Limited(l), FALSE), Range(m.out))
                             /\ (l = 0 => Whole(m))
                  /\ LET m == reverse(Limited(l), TRUE)
                     IN  Visits(m, reverse(Limited(l), FALSE), Range(m.out))
                             /\ (l = 0 => Whole(m))
                  /\ LET m == walk(Limited(l), TRUE)
                     IN  Visits(m, walk(Limited(l), FALSE), Slices(m.out))
                             /\ (l = 0 => Whole(m))
                  /\ \A pivot \in Keys(dom) :
                        /\ LET m == ascend(Limited(l), pivot, TRUE)
                           IN  Visits(m, ascend(Limited(l), pivot, FALSE), Range(m.out))
                        /\ LET m == descend(Limited(l), pivot, TRUE)
                           IN  Visits(m, descend(Limited(l), pivot, FALSE), Range(m.out))
            /\ LET m == items(c, TRUE)
               IN  Visits(m, items(c, FALSE), Range(m.out)) /\ Whole(m)

\* a tree of height 2 that shares every node with the tree it was copied
\* from: GetMut of a key in a leaf copies the root and the leaf, and ScanMut
\* every node
C33_Witness ==
    /\ Len(trees) = 2
    /\ Height(Tree(2)) = 2
    /\ Nodes(2) = Nodes(1)
    /\ \E key \in Keys(dom) :
          LET m == getHint(Tree(2), key, FALSE, TRUE)
          IN  m.ok /\ Len(m.c.heap) = Len(heap) + 2
    /\ Len(scan(Tree(2), TRUE).heap) = Len(heap) + Cardinality(Nodes(2))

-----------------------------------------------------------------------------
(* What a search with a hint leaves in the hint (Spec).                   *)

\* C34 (as first stated): after hintsearch at a depth below 8 the entry for
\* the depth is used and holds the index the search returned.
C34_RecordsReturnedIndex ==
    LET \* the PathHint values given: every entry unused or used with the
        \* same index, and one with entries used and unused in turn
        HintsGiven ==
            {[used |-> [i \in 1..HintDepth |-> u], path |-> [i \in 1..HintDepth |-> q]] :
                u \in BOOLEAN, q \in 0..3}
            \cup {[used |-> [i \in 1..HintDepth |-> i % 2 = 0],
                   path |-> [i \in 1..HintDepth |-> i % 3]]}
    IN
    \A p \in Nodes(1) : \A key \in Pivots : \A hint \in HintsGiven :
        \A depth \in {0, 2, HintDepth - 1} :
            LET r == hintsearch(heap[p], key, hint, depth)
            IN  r.hint.used[depth + 1] /\ r.hint.path[depth + 1] = r.index

\* C34: after hintsearch at a depth below 8 the entry for the depth is used
\* and holds, as an 8-bit value, the index the search returned, or that index
\* plus one when the node is a leaf and the key was found in it; the deeper
\* entries are all unused when that value differs from the one the entry held
\* and are as they were when it does not; the entries above and every other
\* index are as they were; at depth 8 the hint is as it was.
C34_HintEntry ==
    LET \* the PathHint values given: every entry unused or used with the
        \* same index, and one with entries used and unused in turn
        HintsGiven ==
            {[used |-> [i \in 1..HintDepth |-> u], path |-> [i \in 1..HintDepth |-> q]] :
                u \in BOOLEAN, q \in 0..3}
            \cup {[used |-> [i \in 1..HintDepth |-> i % 2 = 0],
                   path |-> [i \in 1..HintDepth |-> i % 3]]}
    IN
    \A p \in Nodes(1) : \A key \in Keys(dom) : \A hint \in HintsGiven :
        /\ \A depth \in {0, 2, HintDepth - 1} :
              LET r == hintsearch(heap[p], key, hint, depth)
                  pathIndex == (IF heap[p].leaf /\ r.found
                                THEN r.index + 1 ELSE r.index) % Uint8
              IN  /\ r.hint.used[depth + 1]
                  /\ r.hint.path[depth + 1] = pathIndex
                  /\ \A i \in 1..HintDepth :
                        /\ i # depth + 1 => r.hint.path[i] = hint.path[i]
                        /\ i < depth + 1 => r.hint.used[i] = hint.used[i]
                        /\ i > depth + 1 =>
                              r.hint.used[i] = (IF pathIndex # hint.path[depth + 1]
                                                THEN FALSE ELSE hint.used[i])
        /\ \A depth \in {HintDepth} :
              hintsearch(heap[p], key, hint, depth).hint = hint

\* in a tree of height 3 a key is found in a leaf at index 1 with a hint
\* whose entries are all used with index 2: the entry is left as it was and
\* so are the deeper ones; the same search with the entries at index 1
\* writes 2 and marks the deeper entries unused; and a key is found in an
\* internal node, where the index itself is written
C34_Witness ==
    LET Flat(path) == [used |-> [i \in 1..HintDepth |-> TRUE],
                       path |-> [i \in 1..HintDepth |-> path]]
    IN  /\ Height(Tree(1)) = 3
        /\ \E p \in Nodes(1) : \E key \in Keys(dom) :
              /\ heap[p].leaf
              /\ hintsearch(heap[p], key, Flat(2), 2).found
              /\ hintsearch(heap[p], key, Flat(2), 2).index = 1
              /\ hintsearch(heap[p], key, Flat(2), 2).hint = Flat(2)
              /\ hintsearch(heap[p], key, Flat(1), 2).hint.path[3] = 2
              /\ ~hintsearch(heap[p], key, Flat(1), 2).hint.used[4]
        /\ \E p \in Nodes(1) : \E key \in Keys(dom) :
              /\ ~heap[p].leaf
              /\ hintsearch(heap[p], key, Flat(3), 0).found
              /\ hintsearch(heap[p], key, Flat(3), 0).hint.path[1]
                    = hintsearch(heap[p], key, Flat(3), 0).index

-----------------------------------------------------------------------------
(* What nodeRebalance does to a child that a delete left short (Spec).     *)

\* C35: when a delete below child i of a node leaves the child with fewer
\* than min items, nodeRebalance merges the child, the separating item and
\* the adjacent sibling into one node of at most max items exactly when the
\* two hold fewer than max items together; otherwise the parent keeps its
\* items and children, the larger of the two gives one item (and, when they
\* are internal, one child) and the other takes one, and both then hold at
\* least min items; either way the items below the parent in order, and the
\* parent's count as the sum of its items and its children's counts, are as
\* before.  The calls are those every delete below every child of every node
\* of the tree comes to, and those on an internal child that a merge below
\* it left with no item, beside the root as a sibling that holds max items.
C35_Rebalance ==
    LET tr == trees[1]
        Rebalanced(pre, n, i) ==
            LET post == nodeRebalance(pre, n, i)
                j == IF i = Len(pre.heap[n].items) THEN i - 1 ELSE i
                left == pre.heap[At(pre.heap[n].children, j)]
                right == pre.heap[At(pre.heap[n].children, j + 1)]
                left2 == post.heap[At(post.heap[n].children, j)]
                right2 == post.heap[At(post.heap[n].children, j + 1)]
                InOrder(c) == nodeScan(c, LocalSlot(n), FALSE).c.out
                Total(c) == Len(c.heap[n].items) + SumCounts(c.heap, c.heap[n].children, 0)
                Counted(c, nd) ==
                    nd.count = Len(nd.items)
                        + IF nd.leaf THEN 0 ELSE SumCounts(c.heap, nd.children, 0)
                step == IF left.leaf THEN 0 ELSE 1
                Merged ==
                    /\ Len(post.heap[n].items) = Len(pre.heap[n].items) - 1
                    /\ Len(post.heap[n].children) = Len(pre.heap[n].children) - 1
                    /\ left2.items = (left.items \o <<At(pre.heap[n].items, j)>>) \o right.items
                    /\ left2.children = left.children \o right.children
                    /\ Len(left2.items) <= tr.max
                    /\ Counted(post, left2)
                Moved ==
                    /\ Len(post.heap[n].items) = Len(pre.heap[n].items)
                    /\ post.heap[n].children = pre.heap[n].children
                    /\ Len(left2.items) >= tr.min /\ Len(right2.items) >= tr.min
                    /\ IF Len(left.items) > Len(right.items)
                       THEN /\ left2.items = Front(left.items)
                            /\ Len(right2.items) = Len(right.items) + 1
                            /\ Len(left2.children) = Len(left.children) - step
                            /\ Len(right2.children) = Len(right.children) + step
                       ELSE /\ Len(left.items) < Len(right.items)
                            /\ Len(left2.items) = Len(left.items) + 1
                            /\ right2.items = Tail(right.items)
                            /\ Len(left2.children) = Len(left.children) + step
                            /\ Len(right2.children) = Len(right.children) - step
                    /\ Counted(post, left2) /\ Counted(post, right2)
            IN  /\ IF Len(left.items) + Len(right.items) < tr.max THEN Merged ELSE Moved
                /\ InOrder(post) = InOrder(pre)
                /\ Total(post) = Total(pre)
                /\ Total(post) = post.heap[n].count
        \* the node of the leaf, the child and the parent, put after the heap:
        \* the child is on the left (below the root's keys) or on the right
        Beside(onLeft) ==
            LET base == IF onLeft THEN -3 ELSE NKeys
                a == Len(heap) + 1
                short == Len(heap) + 2
                rt == tr.root
            IN  heap \o
                <<[Node(tr.isoid, TRUE) EXCEPT
                        !.items = <<Item(base + (IF onLeft THEN 1 ELSE 2), 1),
                                    Item(base + (IF onLeft THEN 2 ELSE 3), 1)>>,
                        !.count = 2],
                  [Node(tr.isoid, FALSE) EXCEPT !.children = <<a>>, !.count = 2],
                  [Node(tr.isoid, FALSE) EXCEPT
                        !.items = <<Item(base + (IF onLeft THEN 3 ELSE 1), 1)>>,
                        !.children = IF onLeft THEN <<short, rt>> ELSE <<rt, short>>,
                        !.count = 3 + heap[rt].count]>>
    IN  /\ \A n \in Nodes(1) : \A i \in 0..Len(heap[n].children) - 1 :
              \A max \in BOOLEAN : \A key \in (IF max THEN {empty} ELSE Keys(dom)) :
                  LET d == delete(Tree(1), ChildSlot(n, i), max, key, FALSE, 0)
                      \* the delete has returned and n.count is taken down
                      pre == Put(d.c, n, [d.c.heap[n] EXCEPT !.count = @ - 1])
                  IN  (d.deleted /\ Len(pre.heap[At(pre.heap[n].children, i)].items) < tr.min)
                          => Rebalanced(pre, n, i)
        /\ (tr.root # 0 /\ ~heap[tr.root].leaf /\ Len(heap[tr.root].items) = tr.max) =>
              /\ Rebalanced(Ctx(Beside(TRUE), tr), Len(heap) + 3, 0)
              /\ Rebalanced(Ctx(Beside(FALSE), tr), Len(heap) + 3, 1)

\* in a tree of height 3: below the root a delete leaves an internal child
\* short and it is merged with its sibling; below another node a leaf left
\* short is merged, and a leaf left short takes an item from a sibling that
\* holds max items
C35_Witness ==
    LET Short(n, i, key) ==
            LET d == delete(Tree(1), ChildSlot(n, i), FALSE, key, FALSE, 0)
            IN  d.deleted /\ Len(d.c.heap[At(d.c.heap[n].children, i)].items) < trees[1].min
        Pair(n, i, key) ==
            LET d == delete(Tree(1), ChildSlot(n, i), FALSE, key, FALSE, 0)
                j == IF i = Len(heap[n].items) THEN i - 1 ELSE i
            IN  <<Len(d.c.heap[At(d.c.heap[n].children, j)].items),
                  Len(d.c.heap[At(d.c.heap[n].children, j + 1)].items)>>
        Case(inner, sizes) ==
            \E n \in Nodes(1) : \E i \in 0..Len(heap[n].children) - 1 : \E key \in Keys(dom) :
                /\ heap[At(heap[n].children, i)].leaf = ~inner
                /\ Short(n, i, key)
                /\ Pair(n, i, key) \in sizes
    IN  /\ Height(Tree(1)) = 3
        /\ Case(TRUE, {<<0, 1>>, <<1, 0>>})
        /\ Case(FALSE, {<<0, 1>>, <<1, 0>>, <<0, 2>>, <<2, 0>>})
        /\ Case(FALSE, {<<0, 3>>, <<3, 0>>})

-----------------------------------------------------------------------------
(* The height of the tree from call to call (Spec).                        *)

\* C36 (as first stated): an Upsert or a Load adds at most one to Height(),
\* and only when the root splits; a Delete, DeleteMin, DeleteMax or DeleteAt
\* takes at most one from it, and only when the root collapses or the tree
\* becomes empty; Height() is 0 exactly when Len() is 0.
C36_GrowsOnlyBySplit ==
    \A t \in 1..Len(trees) :
        LET c == Tree(t)
            H == Height(c)
            \* the root of m is a new node over the root of c and the node split off it
            Split(m) ==
                /\ c.tr.root # 0
                /\ m.tr.root > Len(heap)
                /\ ~m.heap[m.tr.root].leaf
                /\ Len(m.heap[m.tr.root].items) = 1
                /\ At(m.heap[m.tr.root].children, 0) = c.tr.root
            \* the root of m is the one child left to the root of c
            Collapsed(m) ==
                /\ ~m.heap[c.tr.root].leaf
                /\ m.heap[c.tr.root].items = <<>>
                /\ m.tr.root = At(m.heap[c.tr.root].children, 0)
            Emptied(m) == m.tr.root = 0 /\ m.tr.count = 0
            Grown(m) ==
                /\ Height(m) \in {H, H + 1}
                /\ Height(m) = H + 1 => Split(m)
            Shrunk(m) ==
                /\ Height(m) \in {H, H - 1}
                /\ Height(m) = H - 1 => (Collapsed(m) \/ Emptied(m))
        IN  /\ (H = 0) = (Len_(c) = 0)
            /\ \A item \in dom :
                  Grown(setHint(c, item, FALSE).c) /\ Grown(Load(c, item).c)
            /\ \A key \in Keys(dom) : Shrunk(deleteHint(c, key, FALSE).c)
            /\ Shrunk(DeleteMin(c).c) /\ Shrunk(DeleteMax(c).c)
            /\ \A index \in -1..Len_(c) : Shrunk(DeleteAt(c, index).c)

\* C36: an Upsert or a Load adds at most one to Height(), and only when the
\* root splits or the tree was empty; a Delete, DeleteMin, DeleteMax or
\* DeleteAt takes at most one from it, and only when the root collapses or
\* the tree becomes empty; Height() is 0 exactly when Len() is 0.
C36_HeightSteps ==
    \A t \in 1..Len(trees) :
        LET c == Tree(t)
            H == Height(c)
            \* the root of m is a new node over the root of c and the node split off it
            Split(m) ==
                /\ c.tr.root # 0
                /\ m.tr.root > Len(heap)
                /\ ~m.heap[m.tr.root].leaf
                /\ Len(m.heap[m.tr.root].items) = 1
                /\ At(m.heap[m.tr.root].children, 0) = c.tr.root
            \* the root of m is the one child left to the root of c
            Collapsed(m) ==
                /\ ~m.heap[c.tr.root].leaf
                /\ m.heap[c.tr.root].items = <<>>
                /\ m.tr.root = At(m.heap[c.tr.root].children, 0)
            Emptied(m) == m.tr.root = 0 /\ m.tr.count = 0
            Grown(m) ==
                /\ Height(m) \in {H, H + 1}
                /\ Height(m) = H + 1 => (Split(m) \/ c.tr.root = 0)
            Shrunk(m) ==
                /\ Height(m) \in {H, H - 1}
                /\ Height(m) = H - 1 => (Collapsed(m) \/ Emptied(m))
        IN  /\ (H = 0) = (Len_(c) = 0)
            /\ \A item \in dom :
                  Grown(setHint(c, item, FALSE).c) /\ Grown(Load(c, item).c)
            /\ \A key \in Keys(dom) : Shrunk(deleteHint(c, key, FALSE).c)
            /\ Shrunk(DeleteMin(c).c) /\ Shrunk(DeleteMax(c).c)
            /\ \A index \in -1..Len_(c) : Shrunk(DeleteAt(c, index).c)

\* a tree of height 2 that an Upsert leaves with height 3, the root having
\* split, and that every Delete leaves with height 2
C36_Witness ==
    /\ Height(Tree(1)) = 2
    /\ \E item \in dom : Height(setHint(Tree(1), item, FALSE).c) = 3
    /\ \A key \in Keys(dom) : Height(deleteHint(Tree(1), key, FALSE).c) = 2

-----------------------------------------------------------------------------
(* The retries of an insertion (Spec).                                     *)

\* C37: Upsert returns from every tree for every item, having retried a
\* bounded number of times: nodeSet asks for a split only of a node that
\* holds max items, with nothing written; nodeSplit leaves two nodes that
\* hold fewer than max items, so the retry, which descends into one of
\* them, is not asked to split it again; an Upsert splits at most one node
\* on each level of the tree, and setHint makes at most one new root.
C37_UpsertTerminates ==
    \A t \in 1..Len(trees) :
        LET c == Tree(t)
            H == Height(c)
            Slots == {RootSlot : x \in {c.tr.root} \ {0}} \cup
                     {ChildSlot(p, i) : p \in {p \in Nodes(t) : ~heap[p].leaf},
                                        i \in 0..c.tr.max}
            Full(n) == Len(heap[n].items) = c.tr.max
            Halved(n) ==
                LET s == nodeSplit(c, n)
                IN  /\ Len(s.c.heap[n].items) < c.tr.max
                    /\ Len(s.c.heap[s.right].items) < c.tr.max
                    /\ Len(s.c.heap) = Len(heap) + 1
        IN  /\ \A n \in Nodes(t) : Full(n) => Halved(n)
            /\ \A item \in dom :
                  /\ \A slot \in Slots :
                        (slot.kind = "child" => slot.i < Len(heap[slot.p].children)) =>
                            LET r == nodeSet(c, slot, item, FALSE, 0)
                            IN  r.split => (Full(Deref(c, slot)) /\ r.c.heap = heap
                                                /\ ~r.replaced)
                  /\ LET m == setHint(c, item, FALSE).c
                         made == Len(m.heap) - Len(heap)
                         roots == Height(m) - H
                     IN  /\ roots \in {0, 1}
                         /\ made - roots \in 0..H

\* a tree of height 2 whose root and one leaf hold max items each: nodeSet
\* on the root asks for its split, and the Upsert splits the root, makes a
\* new root and, retrying, splits the leaf
C37_Witness ==
    /\ Height(Tree(1)) = 2
    /\ \E item \in dom :
          LET m == setHint(Tree(1), item, FALSE).c
          IN  /\ nodeSet(Tree(1), RootSlot, item, FALSE, 0).split
              /\ Height(m) = 3
              /\ Len(m.heap) = Len(heap) + 3

-----------------------------------------------------------------------------
(* The counts DeleteAt leaves in a tree of degree WideDegree (SpecWide).   *)

\* C38 (as stated): after DeleteAt returns, every node's cached count is the
\* number of its items plus its children's counts and the root's count is
\* the tree's: the child indices recorded in the path are those descended,
\* so that the counts taken down are the counts put back.
C38_CountsAfterDeleteAt ==
    LET root == trees[1].root
        RECURSIVE Sum(_, _, _)
        \* the counts of the children lo .. hi - 1 of the list ch
        Sum(ch, lo, hi) ==
            IF hi <= lo THEN 0
            ELSE IF hi - lo = 1 THEN heap[At(ch, lo)].count
            ELSE Sum(ch, lo, (lo + hi) \div 2) + Sum(ch, (lo + hi) \div 2, hi)
        Counted(n) ==
            heap[n].count = Len(heap[n].items) +
                (IF heap[n].leaf THEN 0 ELSE Sum(heap[n].children, 0, Len(heap[n].children)))
    IN  root # 0 =>
            /\ heap[root].count = trees[1].count
            /\ Counted(root)
            /\ \A i \in 1..Len(heap[root].children) : Counted(heap[root].children[i])

-----------------------------------------------------------------------------
(* DeleteMax and the Delete of the maximum (Spec).                         *)

\* C39: on a tree that is not empty DeleteMax returns the largest stored
\* item and true, and leaves the Scan sequence, the Len() and the cached
\* counts, node for node, that Delete of the item Max returns leaves; both
\* when the rightmost leaf holds more than min items and the item is taken
\* during the descent, and when it holds min items and DeleteMax takes its
\* count updates back and deletes by key.
C39_DeleteMaxAsDelete ==
    \A t \in 1..Len(trees) :
        LET c == Tree(t)
            top == maxMut(c, FALSE)
            a == DeleteMax(c)
            b == deleteHint(c, top.val, FALSE)
        IN  trees[t].root # 0 =>
                /\ top.ok
                /\ a.found /\ a.prev = top.val
                /\ a.prev = Last(ScanOf(heap, trees[t]))
                /\ b.found /\ b.prev = a.prev
                /\ ScanOf(a.c.heap, a.c.tr) = ScanOf(b.c.heap, b.c.tr)
                /\ ScanOf(a.c.heap, a.c.tr) = Front(ScanOf(heap, trees[t]))
                /\ Len_(a.c) = Len_(b.c)
                /\ Kept(a.c) = Kept(b.c)

\* a tree of height 3 whose rightmost leaf holds two items: DeleteMax takes
\* the first during the descent, and for the second, the leaf being at min
\* items, takes the counts back, deletes by key and rebalances
C39_Witness ==
    LET c == Tree(1)
        a == DeleteMax(c)
    IN  /\ Height(c) = 3
        /\ edgeDescend(c, c.tr.root, TRUE).done
        /\ ~edgeDescend(Ctx(a.c.heap, a.c.tr), a.c.tr.root, TRUE).done
        /\ DeleteMax(Ctx(a.c.heap, a.c.tr)).found
        /\ Len(DeleteMax(Ctx(a.c.heap, a.c.tr)).c.heap) = Len(heap)

-----------------------------------------------------------------------------
(* nodeLookUp and the values in the heap (SpecHeap).                      *)

\* C40: after any calls of Push and Pop every value in the heap has an entry
\* in nodeLookUp, the entry points to a node that is in container.nodes at
\* the position its index gives, and no call of Fix with a value in the heap
\* has read a missing entry.
C40_LookUpOfValuesInHeap ==
    /\ th = <<>>
    /\ \A i \in 1..Len(seq) :
          /\ heap[seq[i]].value \in DOMAIN stored[1]
          /\ LET p == stored[1][heap[seq[i]].value]
             IN  /\ heap[p].index >= 0
                 /\ heap[p].index < Len(seq)
                 /\ seq[heap[p].index + 1] = p
=============================================================================
